---- MODULE Spec2Model ----
(***************************************************************************)
(* A model of wap-bot: the Slack socket-mode event loop                    *)
(* (internal/services/bot.go), the thread summarizer (internal/domain)     *)
(* and the music link extractors (pkg/musicextractors).                    *)
(*                                                                         *)
(* Go strings that the program inspects are sequences of one-character     *)
(* strings, so that substring search, regular-expression matching and      *)
(* concatenation are computed and not assumed.  A Go error is the sequence *)
(* of its annotations, outermost first, ending with the sentinel's text;   *)
(* the nil error is the empty sequence.                                    *)
(***************************************************************************)
EXTENDS Integers, Sequences, FiniteSets, TLC

(***************************************************************************)
(* Bounds of the model.                                                    *)
(***************************************************************************)
\* Events the stream delivers in one run.
MaxEvents == 2
\* Messages in one fetched thread.
MaxMsgs == 2

(***************************************************************************)
(* Characters and strings.                                                 *)
(***************************************************************************)
Lower ==
  {"a","b","c","d","e","f","g","h","i","j","k","l","m",
   "n","o","p","q","r","s","t","u","v","w","x","y","z"}

Upper ==
  {"A","B","C","D","E","F","G","H","I","J","K","L","M",
   "N","O","P","Q","R","S","T","U","V","W","X","Y","Z"}

Digits == {"0","1","2","3","4","5","6","7","8","9"}

\* The regexp class \w.
WordChar == Lower \cup Upper \cup Digits \cup {"_"}

\* strings.HasPrefix(s[i-1:], p), with i counted from 1.
HasPrefixAt(s, i, p) ==
  /\ i + Len(p) - 1 <= Len(s)
  /\ \A k \in 1..Len(p) : s[i + k - 1] = p[k]

\* strings.Contains(s, sub)
Contains(s, sub) ==
  \E i \in 1..(Len(s) + 1) : HasPrefixAt(s, i, sub)

(***************************************************************************)
(* Errors.                                                                 *)
(***************************************************************************)
Nil == <<>>

ErrNoURLFound == <<"no URL found in text">>

ErrMultipleResult == <<"multiple results found in string">>

ErrNoTitleFound == <<"no title found in page">>

ErrRequestFailed == <<"failed to fetch URL">>

ErrInvalidCommandType == <<"invalid command type">>

errIgnoredInvalidAPI == <<"ignored invalid evets api data">>

errHandleEvent == <<"failed to handle event">>

errNotImplementedEvent == <<"not implemented events api event received">>

\* fmt.Errorf("<call>: %w", err)
Wrap(call, err) == <<call>> \o err

\* errors.Is(err, target) for a sentinel target
ErrorsIs(err, target) == err # Nil /\ err[Len(err)] = target[1]

\* telemetry.WrapErrorWithTrace: the error it returns
WrapErrorWithTrace(call, err) == IF call # "" THEN Wrap(call, err) ELSE err

(***************************************************************************)
(* pkg/musicextractors: URL extractors.  Each regular expression of the    *)
(* package has the shape  prefix body+ (sep tail+)?  where prefix is one   *)
(* of finitely many literals; a regexp is the record of these parts.       *)
(***************************************************************************)
SpotifyProvider == "spotify"

YouTubeProvider == "youtube"

YoutTubeMusicProvider == "youtube-music"

Schemes == { <<"h","t","t","p",":","/","/">>, <<"h","t","t","p","s",":","/","/">> }

\* `https?://(?:open\.)?spotify\.com/track/[\w\-?=&]+`
spotifyRegex ==
  [ prefixes |-> { s \o o \o <<"s","p","o","t","i","f","y",".","c","o","m","/",
                                "t","r","a","c","k","/">> :
                   s \in Schemes, o \in { <<>>, <<"o","p","e","n",".">> } },
    body |-> WordChar \cup {"-", "?", "=", "&"},
    sep  |-> {},
    tail |-> {} ]

\* A pattern for YouTube that takes any of the hosts www. and music.
youtubeRegexAnyHost ==
  [ prefixes |-> { s \o w \o h :
                   s \in Schemes,
                   w \in { <<>>, <<"w","w","w",".">>, <<"m","u","s","i","c",".">> },
                   h \in { <<"y","o","u","t","u","b","e",".","c","o","m","/",
                             "w","a","t","c","h","?","v","=">>,
                           <<"y","o","u","t","u",".","b","e","/">> } },
    body |-> WordChar \cup {"-"},
    sep  |-> {},
    tail |-> {} ]

\* `https?://(?:www\.)?(?:youtube\.com/watch\?v=|youtu\.be/)[\w\-]+`
youtubeRegex ==
  [ prefixes |-> { s \o w \o h :
                   s \in Schemes, w \in { <<>>, <<"w","w","w",".">> },
                   h \in { <<"y","o","u","t","u","b","e",".","c","o","m","/",
                             "w","a","t","c","h","?","v","=">>,
                           <<"y","o","u","t","u",".","b","e","/">> } },
    body |-> WordChar \cup {"-"},
    sep  |-> {},
    tail |-> {} ]

\* `https?://music\.youtube\.com/watch\?v=[\w\-]+(?:&[\w=&\-]+)?`
youtubeMusicRegex ==
  [ prefixes |-> { s \o <<"m","u","s","i","c",".","y","o","u","t","u","b","e",
                          ".","c","o","m","/","w","a","t","c","h","?","v","=">> :
                   s \in Schemes },
    body |-> WordChar \cup {"-"},
    sep  |-> {"&"},
    tail |-> WordChar \cup {"=", "&", "-"} ]

\* The number of consecutive characters of s from position i that are in cls.
RECURSIVE RunLen(_, _, _)
RunLen(s, i, cls) ==
  IF i <= Len(s) /\ s[i] \in cls THEN 1 + RunLen(s, i + 1, cls) ELSE 0

\* The longest of the literals ps.
Longest(ps) == CHOOSE q \in ps : \A r \in ps : Len(r) <= Len(q)

\* The length of  (sep tail+)?  at position k of s.
OptionalLen(s, k, re) ==
  IF k <= Len(s) /\ s[k] \in re.sep /\ RunLen(s, k + 1, re.tail) > 0
  THEN 1 + RunLen(s, k + 1, re.tail)
  ELSE 0

\* The length of  body+ (sep tail+)?  at position j of s, where the body
\* has n characters; 0 when it has none.
BodyLen(s, j, n, re) == IF n = 0 THEN 0 ELSE n + OptionalLen(s, j + n, re)

\* The length of a match made of a literal of length l and n more
\* characters; there is no match without more characters.
AfterPrefix(l, n) == IF n = 0 THEN 0 ELSE l + n

\* The length of the match of re at position i of s that starts with a
\* literal of length l.
MatchLenFrom(s, i, l, re) ==
  AfterPrefix(l, BodyLen(s, i + l, RunLen(s, i + l, re.body), re))

\* The length of the match of re at position i of s, given the literals ps
\* of re that s holds at i.
MatchLenWith(s, i, ps, re) ==
  IF ps = {} THEN 0 ELSE MatchLenFrom(s, i, Len(Longest(ps)), re)

\* The length of the match of re that starts at position i of s (greedy, as
\* regexp matches it), 0 when there is none.
MatchLenAt(s, i, re) ==
  MatchLenWith(s, i, { p \in re.prefixes : HasPrefixAt(s, i, p) }, re)

\* The positions of s at which a match of re starts.
MatchStarts(s, re) == { k \in DOMAIN s : MatchLenAt(s, k, re) > 0 }

\* The first of the positions ks.
First(ks) == CHOOSE k \in ks : \A j \in ks : k <= j

\* re.FindAllString(s, -1): the successive non-overlapping matches, leftmost
\* first, from position i on, starts being the positions at which a match
\* starts; the empty sequence stands for Go's nil.
RECURSIVE FindAllFrom(_, _, _, _)
FindAllNext(s, k, n, starts, re) ==
  <<SubSeq(s, k, k + n - 1)>> \o FindAllFrom(s, k + n, starts, re)

FindAllAt(s, k, starts, re) ==
  FindAllNext(s, k, MatchLenAt(s, k, re), starts, re)

FindAllFrom(s, i, starts, re) ==
  IF { k \in starts : k >= i } = {} THEN <<>>
  ELSE FindAllAt(s, First({ k \in starts : k >= i }), starts, re)

FindAllString(s, re) == FindAllFrom(s, 1, MatchStarts(s, re), re)

\* A regexURLExtractor that returns the first of several matches.
oneMatchFirst(matches) ==
  IF matches = <<>> THEN [url |-> <<>>, err |-> ErrNoURLFound]
  ELSE [url |-> matches[1], err |-> Nil]

\* regexURLExtractor after re.FindAllString has returned matches
oneMatch(matches) ==
  IF matches = <<>> THEN [url |-> <<>>, err |-> ErrNoURLFound]
  ELSE IF Len(matches) # 1 THEN [url |-> <<>>, err |-> ErrMultipleResult]
  ELSE [url |-> matches[1], err |-> Nil]

regexURLExtractor(text, re) == oneMatch(FindAllString(text, re))

\* An extractor that names its provider only with a link.
withProviderOfLink(r, provider) ==
  [url |-> r.url, provider |-> IF r.err = Nil THEN provider ELSE "", err |-> r.err]

\* return url, provider, err
withProvider(r, provider) ==
  [url |-> r.url, provider |-> provider, err |-> r.err]

SpotifyURLExtractor(text) ==
  withProvider(regexURLExtractor(text, spotifyRegex), SpotifyProvider)

YouTubeURLExtractor(text) ==
  withProvider(regexURLExtractor(text, youtubeRegex), YouTubeProvider)

YouTubeMusicURLExtractor(text) ==
  withProvider(regexURLExtractor(text, youtubeMusicRegex), YoutTubeMusicProvider)

(***************************************************************************)
(* pkg/musicextractors: title extractors.  The HTTP exchange is the input: *)
(* a response records whether the request failed, the status code and what *)
(* the body holds.  For the Spotify page the body is given by the content  *)
(* captured by the og:title and og:description patterns (the empty string  *)
(* when the pattern does not match: the capture group is [^"]+); for the   *)
(* oEmbed answer by whether it decodes as JSON and by its title field.     *)
(***************************************************************************)
StatusOK == 200

\* The rune U+00B7 of the separator " · ".
MiddleDot == "middot"

Space == {" ", "\t", "\n", "\r"}

RECURSIVE TrimLeft(_)
TrimLeft(s) == IF s # <<>> /\ Head(s) \in Space THEN TrimLeft(Tail(s)) ELSE s

RECURSIVE TrimRight(_)
TrimRight(s) ==
  IF s # <<>> /\ s[Len(s)] \in Space THEN TrimRight(SubSeq(s, 1, Len(s) - 1)) ELSE s

\* strings.TrimSpace
TrimSpace(s) == TrimRight(TrimLeft(s))

\* strings.SplitN(s, sep, 2), given the positions of sep in s
splitAt(s, sep, at) ==
  IF at = {} THEN <<s>>
  ELSE << SubSeq(s, 1, (CHOOSE j \in at : \A k \in at : j <= k) - 1),
          SubSeq(s, (CHOOSE j \in at : \A k \in at : j <= k) + Len(sep), Len(s)) >>

SplitN2(s, sep) == splitAt(s, sep, { i \in 1..Len(s) : HasPrefixAt(s, i, sep) })

\* A SpotifyTitleExtractor that finds no title in a description without the
\* separator.
joinArtistStrict(artistParts, description, songTitle) ==
  IF Len(artistParts) < 2
  THEN [title |-> <<>>, err |-> ErrNoTitleFound]
  ELSE [title |-> artistParts[1] \o <<" ","-"," ">> \o songTitle, err |-> Nil]

\* SpotifyTitleExtractor from SplitN on: the artist, or the description
joinArtist(artistParts, description, songTitle) ==
  IF Len(artistParts) < 2
  THEN [title |-> description \o <<" ","-"," ">> \o songTitle, err |-> Nil]
  ELSE [title |-> artistParts[1] \o <<" ","-"," ">> \o songTitle, err |-> Nil]

\* SpotifyTitleExtractor once the title is found
withDescription(songTitle, description) ==
  joinArtist(SplitN2(description, <<" ", MiddleDot, " ">>), description, songTitle)

SpotifyTitleExtractor(resp) ==
  IF resp.doErr THEN [title |-> <<>>, err |-> ErrRequestFailed]
  ELSE IF resp.status # StatusOK THEN [title |-> <<>>, err |-> ErrRequestFailed]
  ELSE IF resp.readErr THEN [title |-> <<>>, err |-> ErrRequestFailed]
  ELSE IF resp.ogTitle = <<>> THEN [title |-> <<>>, err |-> ErrNoTitleFound]
  ELSE IF resp.ogDesc = <<>>
  THEN [title |-> TrimSpace(resp.ogTitle), err |-> Nil]
  ELSE withDescription(TrimSpace(resp.ogTitle), TrimSpace(resp.ogDesc))

\* A YouTubeTitleExtractor that takes a body it cannot decode for a failed
\* request.
YouTubeTitleExtractorUndecoded(resp) ==
  IF resp.doErr THEN [title |-> <<>>, err |-> ErrRequestFailed]
  ELSE IF resp.status # StatusOK THEN [title |-> <<>>, err |-> ErrRequestFailed]
  ELSE IF resp.decodeErr THEN [title |-> <<>>, err |-> ErrRequestFailed]
  ELSE IF resp.title = <<>> THEN [title |-> <<>>, err |-> ErrNoTitleFound]
  ELSE [title |-> resp.title, err |-> Nil]

YouTubeTitleExtractor(resp) ==
  IF resp.doErr THEN [title |-> <<>>, err |-> ErrRequestFailed]
  ELSE IF resp.status # StatusOK THEN [title |-> <<>>, err |-> ErrRequestFailed]
  ELSE IF resp.decodeErr THEN [title |-> <<>>, err |-> ErrNoTitleFound]
  ELSE IF resp.title = <<>> THEN [title |-> <<>>, err |-> ErrNoTitleFound]
  ELSE [title |-> resp.title, err |-> Nil]

(***************************************************************************)
(* cmd/bot: the two registries the processor is built from.                *)
(***************************************************************************)
Providers == {SpotifyProvider, YouTubeProvider, YoutTubeMusicProvider}

\* urlProcessors[p](text)
urlProcessors(p, text) ==
  CASE p = SpotifyProvider -> SpotifyURLExtractor(text)
    [] p = YouTubeProvider -> YouTubeURLExtractor(text)
    [] p = YoutTubeMusicProvider -> YouTubeMusicURLExtractor(text)

\* titleExtractors[p](url), given the answer of the server
titleExtractors(p, resp) ==
  CASE p = SpotifyProvider -> SpotifyTitleExtractor(resp)
    [] p = YouTubeProvider -> YouTubeTitleExtractor(resp)
    [] p = YoutTubeMusicProvider -> YouTubeTitleExtractor(resp)

(***************************************************************************)
(* internal/domain: the summarizer.                                        *)
(***************************************************************************)
\* Go ranges over the map s.processors in an order of the runtime's choice.
OrdersOf(ps) ==
  { o \in [1..Cardinality(ps) -> ps] :
      \A i, j \in DOMAIN o : i # j => o[i] # o[j] }

\* The orders of the registry of main.
Orders == OrdersOf(Providers)

\* NewSlackMessageProcessor: the processor keeps the two registries as they
\* are given; of a registry the model keeps the keys.
NewSlackMessageProcessor(urlP, tp) == [processors |-> urlP, titleParser |-> tp]

\* The keys of the registries urlProcessors and titleExtractors of main.
urlProcessorKeys == {SpotifyProvider, YouTubeProvider, YoutTubeMusicProvider}

titleExtractorKeys == {SpotifyProvider, YouTubeProvider, YoutTubeMusicProvider}

\* An extractMusicURL that gives up at the first extractor that finds no
\* link.
extractedFirstOnly(text, o, i, r) ==
  IF r.err # Nil
  THEN [url |-> <<>>, provider |-> "", err |-> Wrap("url parsing", r.err)]
  ELSE r

\* An extractMusicURL that goes on to the next extractor after any error.
RECURSIVE extractFrom(_, _, _)
extractedPastAny(text, o, i, r) ==
  IF r.err # Nil THEN extractFrom(text, o, i + 1) ELSE r

\* extractMusicURL after the extractor of o[i] has returned r.
extracted(text, o, i, r) ==
  IF r.err # Nil
  THEN IF ErrorsIs(r.err, ErrNoURLFound)
       THEN extractFrom(text, o, i + 1)
       ELSE [url |-> <<>>, provider |-> "", err |-> Wrap("url parsing", r.err)]
  ELSE r

\* The first part of extractMusicURL: the providers are tried in the order o
\* from position i on, until one does not answer ErrNoURLFound.
extractFrom(text, o, i) ==
  IF i > Len(o)
  THEN [url |-> <<>>, provider |-> "", err |-> ErrNoURLFound]
  ELSE extracted(text, o, i, urlProcessors(o[i], text))

\* An extractMusicURL that returns the link whatever the title extractor
\* has answered.
titledAnyway(found, t) ==
  [Title |-> t.title, URL |-> found.url, Type |-> found.provider, err |-> Nil]

\* extractMusicURL after the title extractor has returned t.
titled(found, t) ==
  IF t.err # Nil
  THEN [Title |-> <<>>, URL |-> <<>>, Type |-> "",
        err |-> Wrap("title parsing", t.err)]
  ELSE [Title |-> t.title, URL |-> found.url, Type |-> found.provider,
        err |-> Nil]

\* The second part of extractMusicURL: the parsed link, given the link
\* found and the answer of the title extractor.
parseTitle(found, resp) == titled(found, titleExtractors(found.provider, resp))

\* strconv.Itoa for n >= 0, as fmt's %d prints it
RECURSIVE Itoa(_)
Itoa(n) ==
  IF n < 10 THEN <<<<"0","1","2","3","4","5","6","7","8","9">>[n + 1]>>
  ELSE Itoa(n \div 10) \o <<<<"0","1","2","3","4","5","6","7","8","9">>[(n % 10) + 1]>>

\* encoding/csv: whether Writer quotes the field (Comma is ';')
fieldNeedsQuotes(f) ==
  /\ f # <<>>
  /\ \/ f = <<"\\", ".">>
     \/ \E i \in 1..Len(f) : f[i] \in {";", "\"", "\n", "\r"}
     \/ f[1] \in Space

\* A writer that leaves the quotes of a field as they are.
quotedAsIs(f) == f

\* the field between quotes, every quote doubled
RECURSIVE quoted(_)
quoted(f) ==
  IF f = <<>> THEN <<>>
  ELSE (IF Head(f) = "\"" THEN <<"\"", "\"">> ELSE <<Head(f)>>) \o quoted(Tail(f))

csvField(f) ==
  IF fieldNeedsQuotes(f) THEN <<"\"">> \o quoted(f) \o <<"\"">> ELSE f

\* csv.Writer.Write of one record: the fields joined by ';', then a newline
RECURSIVE csvJoin(_)
csvJoin(rec) ==
  IF rec = <<>> THEN <<"\n">>
  ELSE csvField(Head(rec)) \o
       (IF Len(rec) > 1 THEN <<";">> ELSE <<>>) \o csvJoin(Tail(rec))

CSVHeader ==
  << <<"T","i","t","l","e">>,
     <<"S","p","o","t","i","f","y"," ","U","R","L">>,
     <<"Y","o","u","T","u","b","e"," ","U","R","L">>,
     <<"Y","o","u","T","u","b","e"," ","M","u","s","i","c"," ","U","R","L">> >>

\* A createCSV that writes the links of YouTube and of YouTube Music in
\* each other's column.
csvRecordSwapped(pml) ==
  CASE pml.Type = SpotifyProvider -> <<pml.Title, pml.URL, <<>>, <<>>>>
    [] pml.Type = YouTubeProvider -> <<pml.Title, <<>>, <<>>, pml.URL>>
    [] pml.Type = YoutTubeMusicProvider -> <<pml.Title, <<>>, pml.URL, <<>>>>

\* the record createCSV writes for one parsed link
csvRecord(pml) ==
  CASE pml.Type = SpotifyProvider -> <<pml.Title, pml.URL, <<>>, <<>>>>
    [] pml.Type = YouTubeProvider -> <<pml.Title, <<>>, pml.URL, <<>>>>
    [] pml.Type = YoutTubeMusicProvider -> <<pml.Title, <<>>, <<>>, pml.URL>>

RECURSIVE csvLines(_)
csvLines(pmls) ==
  IF pmls = <<>> THEN <<>>
  ELSE csvJoin(csvRecord(Head(pmls))) \o csvLines(Tail(pmls))

\* buff.Len(): the number of bytes of buff.  Every character of the model is
\* one byte of UTF-8, but for the middle dot, which is two.
ByteLen(buff) == Len(buff) + Cardinality({ k \in DOMAIN buff : buff[k] = MiddleDot })

\* The size classes of the allocator, in bytes.
SizeClasses ==
  { 8, 16, 24, 32, 48, 64, 80, 96, 112, 128, 144, 160, 176, 192, 208, 224, 240,
    256, 288, 320, 352, 384, 416, 448, 480, 512, 576, 640, 704, 768, 896, 1024,
    1152, 1280, 1408, 1536, 1792, 2048 }

\* buff.Cap() after one write of n bytes (w.Flush) to the empty buffer of
\* bytes.NewBuffer(nil): a small write allocates 64 bytes, a larger one as
\* many bytes as its size class holds.
Cap(n) ==
  IF n <= 64 THEN 64
  ELSE CHOOSE c \in SizeClasses :
         c >= n /\ \A d \in SizeClasses : d >= n => c <= d

\* createCSV of the processor that holds the client, given the bytes of its
\* buffer: the size it returns is buff.Cap().
csvResultCap(buff) == [csv |-> buff, size |-> Cap(ByteLen(buff)), err |-> Nil]

\* createCSV, given the bytes of its buffer.  Writing to a bytes.Buffer
\* with the delimiter ';' cannot fail.
csvResult(buff) == [csv |-> buff, size |-> ByteLen(buff), err |-> Nil]

createCSV(pmls) == csvResult(csvJoin(CSVHeader) \o csvLines(pmls))

\* A file name with the thread timestamp first.
fileNameOfThread(channelID, threadTS) ==
  threadTS \o <<"-">> \o channelID \o <<".","c","s","v">>

\* fmt.Sprintf("%s-%s.csv", channelID, threadTS)
fileNameOf(channelID, threadTS) ==
  channelID \o <<"-">> \o threadTS \o <<".","c","s","v">>

\* SummarizeThread after createCSV has returned c
uploadParametersOf(c, n, fileName, channelID, threadTS) ==
  IF c.err # Nil
  THEN [params |-> [Reader |-> <<>>, Filename |-> <<>>, Title |-> <<>>,
                    InitialComment |-> <<>>, Channel |-> <<>>,
                    ThreadTimestamp |-> <<>>, FileSize |-> 0],
        err |-> Wrap("create csv", c.err)]
  ELSE [params |-> [Reader |-> c.csv, Filename |-> fileName, Title |-> fileName,
                    InitialComment |->
                      <<"F","o","u","n","d"," ">> \o Itoa(n) \o
                      <<" ","m","u","s","i","c"," ","U","R","L","s"," ","i","n",
                        " ","t","h","i","s"," ","t","h","r","e","a","d">>,
                    Channel |-> channelID, ThreadTimestamp |-> threadTS,
                    FileSize |-> c.size],
        err |-> Nil]

\* SummarizeThread after its loop: the upload parameters for the links found
uploadParameters(pmls, channelID, threadTS) ==
  uploadParametersOf(createCSV(pmls), Len(pmls),
                     fileNameOf(channelID, threadTS), channelID, threadTS)

(***************************************************************************)
(* The inputs: what the socket delivers and what the servers answer.       *)
(***************************************************************************)
CommandSummarize == <<"s","u","m","m","a","r","i","z","e">>

CallbackEvent == "event_callback"

EventTypeEventsAPI == "events_api"

\* The kinds HandleEvents only logs; "disconnect" is one its switch does
\* not name.
LogOnlyTypes == {"connecting", "connection_error", "connected", "hello", "disconnect"}

NoInner ==
  [shape |-> "", Type |-> "", User |-> <<>>, Channel |-> <<>>, Text |-> <<>>,
   ThreadTimeStamp |-> <<>>]

NoData == [shape |-> "", Type |-> "", Inner |-> NoInner]

NoEvent == [id |-> 0, Type |-> "", Request |-> 0, Data |-> NoData]

\* Who mentions the bot and where.
Origins ==
  { [Channel |-> <<"C","1">>, User |-> <<"U","1">>],
    [Channel |-> <<"C","2">>, User |-> <<"U","2">>] }

\* Thread timestamps: the empty one means the mention is not in a thread.
ThreadStamps == { <<>>, <<"1","7","0","0",".","0","1">> }

MentionTexts ==
  { <<"s","u","m","m","a","r","i","z","e">>,
    <<"h","i"," ","s","u","m","m","a","r","i","z","e","d">>,
    <<"S","u","m","m","a","r","i","z","e">>,
    <<"s","u","m"," ","i","t"," ","u","p">> }

Mentions ==
  { [shape |-> "AppMentionEvent", Type |-> "app_mention", User |-> o.User,
     Channel |-> o.Channel, Text |-> t, ThreadTimeStamp |-> ts] :
    o \in Origins, t \in MentionTexts, ts \in ThreadStamps }

\* An inner event that is not a mention: a message that asks to summarize.
OtherInner ==
  [shape |-> "MessageEvent", Type |-> "message", User |-> <<"U","1">>,
   Channel |-> <<"C","1">>, Text |-> CommandSummarize,
   ThreadTimeStamp |-> <<"1","7","0","0",".","0","1">>]

\* What an event carries besides its identifiers.
Payloads ==
  { [Type |-> t, Data |-> NoData] : t \in LogOnlyTypes }
  \cup { [Type |-> EventTypeEventsAPI,
          Data |-> [shape |-> "other", Type |-> "", Inner |-> NoInner]] }
  \cup { [Type |-> EventTypeEventsAPI,
          Data |-> [shape |-> "EventsAPIEvent", Type |-> "url_verification",
                    Inner |-> NoInner]] }
  \cup { [Type |-> EventTypeEventsAPI,
          Data |-> [shape |-> "EventsAPIEvent", Type |-> CallbackEvent,
                    Inner |-> i]] : i \in Mentions \cup {OtherInner} }

SampleTexts ==
  { <<"c","h","e","c","k"," ","h","t","t","p","s",":","/","/","o","p","e","n",".",
      "s","p","o","t","i","f","y",".","c","o","m","/","t","r","a","c","k","/",
      "a","b","c","1","2","3">>,
    <<"n","o"," ","l","i","n","k","s"," ","h","e","r","e">>,
    <<"h","t","t","p","s",":","/","/","y","o","u","t","u",".","b","e","/",
      "x","y","z","7","8","9">>,
    <<"h","t","t","p","s",":","/","/","o","p","e","n",".","s","p","o","t","i","f",
      "y",".","c","o","m","/","t","r","a","c","k","/","a","b","c","1","2","3"," ",
      "h","t","t","p","s",":","/","/","y","o","u","t","u",".","b","e","/","x","y",
      "z","7","8","9">> }

\* The reply lists a fetch may return.
Threads ==
  UNION { [1..n -> { [Text |-> t] : t \in SampleTexts }] : n \in 0..MaxMsgs }

\* The links of the end-to-end scenario.
SampleSpotifyURL ==
  <<"h","t","t","p","s",":","/","/","o","p","e","n",".","s","p","o","t","i","f",
    "y",".","c","o","m","/","t","r","a","c","k","/","a","b","c","1","2","3">>

SampleYouTubeURL ==
  <<"h","t","t","p","s",":","/","/","y","o","u","t","u",".","b","e","/","x","y",
    "z","7","8","9">>

\* The answers of the Spotify server that give no title: no answer, an
\* answer that is not 200, a body that cannot be read, a page without
\* og:title.
SpotifyFailures ==
  { [doErr |-> TRUE, status |-> 0, readErr |-> FALSE, ogTitle |-> <<>>,
     ogDesc |-> <<>>],
    [doErr |-> FALSE, status |-> 404, readErr |-> FALSE, ogTitle |-> <<>>,
     ogDesc |-> <<>>],
    [doErr |-> FALSE, status |-> StatusOK, readErr |-> TRUE, ogTitle |-> <<>>,
     ogDesc |-> <<>>],
    [doErr |-> FALSE, status |-> StatusOK, readErr |-> FALSE, ogTitle |-> <<>>,
     ogDesc |-> <<>>] }

\* The page of the scenario: og:title and an og:description with separators.
SpotifySamplePage ==
  [doErr |-> FALSE, status |-> StatusOK, readErr |-> FALSE,
   ogTitle |-> <<"S","o","n","g","A">>,
   ogDesc |-> <<"A","r","t","i","s","t"," ",MiddleDot," ","A","l","b","u","m",
                " ",MiddleDot," ","S","o","n","g">>]

\* Pages of other shapes: og:title alone, og:title of white space, and an
\* og:description without the separator.
SpotifyPages ==
  { [doErr |-> FALSE, status |-> StatusOK, readErr |-> FALSE,
     ogTitle |-> <<"S","o","n","g","A">>, ogDesc |-> <<>>],
    [doErr |-> FALSE, status |-> StatusOK, readErr |-> FALSE,
     ogTitle |-> <<" ">>, ogDesc |-> <<>>],
    [doErr |-> FALSE, status |-> StatusOK, readErr |-> FALSE,
     ogTitle |-> <<" ","S","o","n","g","A">>,
     ogDesc |-> <<"A"," ","s","o","n","g"," ">>] }

SpotifyResponses == SpotifyFailures \cup {SpotifySamplePage} \cup SpotifyPages

\* The answers of the oEmbed server that give no title: no answer, an answer
\* that is not 200, a body that is not JSON, JSON without a title.
OEmbedFailures ==
  { [doErr |-> TRUE, status |-> 0, decodeErr |-> FALSE, title |-> <<>>],
    [doErr |-> FALSE, status |-> 404, decodeErr |-> FALSE, title |-> <<>>],
    [doErr |-> FALSE, status |-> StatusOK, decodeErr |-> TRUE, title |-> <<>>],
    [doErr |-> FALSE, status |-> StatusOK, decodeErr |-> FALSE, title |-> <<>>] }

\* The answer of the scenario.
OEmbedSample ==
  [doErr |-> FALSE, status |-> StatusOK, decodeErr |-> FALSE,
   title |-> <<"S","o","n","g","B">>]

\* Titles with the delimiter, quotes and line breaks.
OEmbedTitles ==
  { [doErr |-> FALSE, status |-> StatusOK, decodeErr |-> FALSE,
     title |-> <<"A",";","\"","B","\"","\n","C">>],
    [doErr |-> FALSE, status |-> StatusOK, decodeErr |-> FALSE,
     title |-> <<"X","\r","\n","Y">>] }

OEmbedResponses == OEmbedFailures \cup {OEmbedSample} \cup OEmbedTitles

\* The answers the server of provider p may give.
Responses(p) == IF p = SpotifyProvider THEN SpotifyResponses ELSE OEmbedResponses

\* The answers the server of provider p may give for the link: under the
\* links of the scenario are the pages of the scenario, under the other
\* links pages of every shape; any request may fail.
ResponsesFor(p, url) ==
  IF url \in {SampleSpotifyURL, SampleYouTubeURL}
  THEN (IF p = SpotifyProvider
        THEN SpotifyFailures \cup {SpotifySamplePage}
        ELSE OEmbedFailures \cup {OEmbedSample})
  ELSE Responses(p)

\* The errors of the Slack client: one of the API, one of a cancelled context.
SlackAPIError == <<"slack: server error">>

ContextCanceledError == <<"context canceled">>

(***************************************************************************)
(* The state.                                                              *)
(***************************************************************************)
VARIABLES
  Events,     \* socketClient.Events: the events sent and not yet received
  closed,     \* whether socketClient.Events is closed
  cancelled,  \* whether ctx is done
  arrived,    \* how many events the socket has delivered
  pc,         \* where HandleEvents is
  evt,        \* the event HandleEvents took last
  handled,    \* the ids of the events HandleEvents took, in order
  trace,      \* the calls and log lines made for evt, in order
  inflight,   \* the network call HandleEvents waits for: which, the context
              \* it was given, whether it has a deadline of its own, and
              \* whether ctx was done before it began
  msgs,       \* processThread: the fetched replies
  idx,        \* SummarizeThread: the index of the message at hand
  pmls,       \* SummarizeThread: the parsed links so far
  found,      \* extractMusicURL: the link whose title is being fetched
  answer,     \* the network call that returned last for evt, and its error
  processor   \* the message processor: the keys of its two registries

vars ==
  <<Events, closed, cancelled, arrived, pc, evt, handled, trace, inflight,
    msgs, idx, pmls, found, answer, processor>>

NoCall == [kind |-> "none", ctx |-> "", timeout |-> FALSE, late |-> FALSE]

NoFound == [url |-> <<>>, provider |-> "", err |-> Nil]

NoAnswer == [call |-> "none", err |-> Nil]

Init ==
  /\ Events = <<>>
  /\ closed = FALSE
  /\ cancelled = FALSE
  /\ arrived = 0
  /\ pc = "select"
  /\ evt = NoEvent
  /\ handled = <<>>
  /\ trace = <<>>
  /\ inflight = NoCall
  /\ msgs = <<>>
  /\ idx = 0
  /\ pmls = <<>>
  /\ found = NoFound
  /\ answer = NoAnswer
  /\ processor = NewSlackMessageProcessor(urlProcessorKeys, titleExtractorKeys)

(***************************************************************************)
(* The environment: the socket client and the shutdown signal.             *)
(***************************************************************************)
\* The socket client sends an event on the channel.  The channel holds the
\* events by their ids; what an event carries is drawn when it is received,
\* since nothing reads it before.
Arrive ==
  /\ arrived < MaxEvents
  /\ ~closed
  /\ Events' = Append(Events, arrived + 1)
  /\ arrived' = arrived + 1
  /\ UNCHANGED <<processor, closed, cancelled, pc, evt, handled, trace, inflight, msgs,
                 idx, pmls, found, answer>>

\* The channel is closed.
CloseEvents ==
  /\ ~closed
  /\ closed' = TRUE
  /\ UNCHANGED <<processor, Events, cancelled, arrived, pc, evt, handled, trace, inflight,
                 msgs, idx, pmls, found, answer>>

\* main: cancel() after the shutdown signal.
Cancel ==
  /\ ~cancelled
  /\ cancelled' = TRUE
  /\ UNCHANGED <<processor, Events, closed, arrived, pc, evt, handled, trace, inflight,
                 msgs, idx, pmls, found, answer>>

(***************************************************************************)
(* HandleEvents.                                                           *)
(***************************************************************************)
LogLine(level, msg, err) == [kind |-> "log", level |-> level, msg |-> msg, err |-> err]

\* A switch of HandleEvents that answers the greeting with an acknowledgment.
typeLogAcksHello(t) ==
  CASE t = "connecting" -> LogLine("DEBUG", "connection to slack socket", Nil)
    [] t = "connection_error" -> LogLine("WARN", "socket connection failed", Nil)
    [] t = "connected" -> LogLine("INFO", "connected to slack socket", Nil)
    [] t = "hello" -> [kind |-> "Ack", Request |-> 0]
    [] OTHER -> LogLine("WARN", "not implemented event received", Nil)

\* The log line of the switch of HandleEvents for an event it only logs.
typeLog(t) ==
  CASE t = "connecting" -> LogLine("DEBUG", "connection to slack socket", Nil)
    [] t = "connection_error" -> LogLine("WARN", "socket connection failed", Nil)
    [] t = "connected" -> LogLine("INFO", "connected to slack socket", Nil)
    [] t = "hello" ->
         LogLine("DEBUG", "greeting message received from slack connection", Nil)
    [] OTHER -> LogLine("WARN", "not implemented event received", Nil)

\* A loop that looks at ctx only when it has an event to take, as
\* `for evt := range Events` with a check of ctx.Err() in its body would.
SelectDoneOnEvent ==
  /\ pc = "select"
  /\ cancelled
  /\ Events # <<>>
  /\ pc' = "returned"
  /\ UNCHANGED <<processor, Events, closed, cancelled, arrived, evt, handled, trace,
                 inflight, msgs, idx, pmls, found, answer>>

\* case <-ctx.Done(): return
SelectDone ==
  /\ pc = "select"
  /\ cancelled
  /\ pc' = "returned"
  /\ UNCHANGED <<processor, Events, closed, cancelled, arrived, evt, handled, trace,
                 inflight, msgs, idx, pmls, found, answer>>

\* A HandleEvents that returns as soon as the channel is closed, whatever
\* still waits on it.
SelectClosedAtOnce ==
  /\ pc = "select"
  /\ closed
  /\ pc' = "returned"
  /\ evt' = NoEvent
  /\ trace' = <<LogLine("INFO", "events channel closed", Nil)>>
  /\ answer' = NoAnswer
  /\ UNCHANGED <<processor, Events, closed, cancelled, arrived, handled, inflight, msgs,
                 idx, pmls, found>>

\* case evt, ok := <-Events with ok false: the channel is closed and empty.
SelectClosed ==
  /\ pc = "select"
  /\ closed
  /\ Events = <<>>
  /\ pc' = "returned"
  /\ evt' = NoEvent
  /\ trace' = <<LogLine("INFO", "events channel closed", Nil)>>
  /\ answer' = NoAnswer
  /\ UNCHANGED <<processor, Events, closed, cancelled, arrived, handled, inflight, msgs,
                 idx, pmls, found>>

\* The event with the id n that carries p.  An events-api event comes with
\* the request (envelope) it answers, the other kinds with none.
EventOf(n, p) ==
  [id |-> n, Type |-> p.Type,
   Request |-> IF p.Type = EventTypeEventsAPI THEN n ELSE 0,
   Data |-> p.Data]

\* A HandleEvents that hands the event to a goroutine of its own and takes
\* the next one at once, whatever the handler of the one before is at.
SelectEventAtOnce ==
  /\ pc # "returned"
  /\ Events # <<>>
  /\ \E p \in Payloads :
       LET e == EventOf(Head(Events), p)
       IN /\ evt' = e
          /\ IF e.Type = EventTypeEventsAPI
             THEN /\ pc' = "handleEventsAPI"
                  /\ trace' = <<>>
             ELSE /\ pc' = "select"
                  /\ trace' = <<typeLog(e.Type)>>
  /\ Events' = Tail(Events)
  /\ handled' = Append(handled, Head(Events))
  /\ answer' = NoAnswer
  /\ UNCHANGED <<processor, closed, cancelled, arrived, inflight, msgs, idx, pmls, found>>

\* A HandleEvents that takes the event that arrived last and not the one
\* that waits longest.
SelectEventNewest ==
  /\ pc = "select"
  /\ Events # <<>>
  /\ \E p \in Payloads :
       LET e == EventOf(Events[Len(Events)], p)
       IN /\ evt' = e
          /\ IF e.Type = EventTypeEventsAPI
             THEN /\ pc' = "handleEventsAPI"
                  /\ trace' = <<>>
             ELSE /\ pc' = "select"
                  /\ trace' = <<typeLog(e.Type)>>
  /\ Events' = SubSeq(Events, 1, Len(Events) - 1)
  /\ handled' = Append(handled, Events[Len(Events)])
  /\ answer' = NoAnswer
  /\ UNCHANGED <<processor, closed, cancelled, arrived, inflight, msgs, idx, pmls, found>>

\* case evt, ok := <-Events with ok true, and the switch on evt.Type.
SelectEvent ==
  /\ pc = "select"
  /\ Events # <<>>
  /\ \E p \in Payloads :
       LET e == EventOf(Head(Events), p)
       IN /\ evt' = e
          /\ IF e.Type = EventTypeEventsAPI
             THEN /\ pc' = "handleEventsAPI"
                  /\ trace' = <<>>
             ELSE /\ pc' = "select"
                  /\ trace' = <<typeLog(e.Type)>>
  /\ Events' = Tail(Events)
  /\ handled' = Append(handled, Head(Events))
  /\ answer' = NoAnswer
  /\ UNCHANGED <<processor, closed, cancelled, arrived, inflight, msgs, idx, pmls, found>>

\* An acknowledgment that carries the zero Request and not the event's.
AckCallZero(e) == [kind |-> "Ack", Request |-> 0]

\* An acknowledgment that carries the request of the first event the
\* dispatcher has taken, kept from one event to the next.
AckCallFirst(e) == [kind |-> "Ack", Request |-> handled[1]]

\* bot.socketClient.Ack(*evt.Request)
AckCall(e) == [kind |-> "Ack", Request |-> e.Request]

\* evt.Data.(slackevents.EventsAPIEvent)
isAPIEvent(e) == e.Data.shape = "EventsAPIEvent"

\* A handleEventsAPI that looks at the sub-type before it acknowledges, so
\* that an event that is not a callback is dropped without acknowledgment.
handleEventsAPIAckOnCallback ==
  /\ pc = "handleEventsAPI"
  /\ IF ~isAPIEvent(evt)
     THEN /\ trace' = Append(trace, LogLine("WARN", errIgnoredInvalidAPI[1], Nil))
          /\ pc' = "select"
     ELSE IF evt.Data.Type # CallbackEvent
     THEN /\ trace' = trace
          /\ pc' = "select"
     ELSE IF evt.Data.Inner.shape = "AppMentionEvent"
     THEN /\ trace' = Append(trace, AckCall(evt))
          /\ pc' = "handleMentions"
     ELSE /\ trace' = trace \o
               << AckCall(evt),
                  LogLine("WARN", errNotImplementedEvent[1], Nil) >>
          /\ pc' = "select"
  /\ UNCHANGED <<processor, Events, closed, cancelled, arrived, evt, handled, inflight,
                 msgs, idx, pmls, found, answer>>

\* A handleEventsAPI that hands the failed type assertion on as an error
\* HandleEvents returns on.
handleEventsAPIFatal ==
  /\ pc = "handleEventsAPI"
  /\ IF ~isAPIEvent(evt)
     THEN /\ trace' = Append(trace, LogLine("WARN", errIgnoredInvalidAPI[1], Nil))
          /\ pc' = "returned"
     ELSE IF evt.Data.Type # CallbackEvent
     THEN /\ trace' = Append(trace, AckCall(evt))
          /\ pc' = "select"
     ELSE IF evt.Data.Inner.shape = "AppMentionEvent"
     THEN /\ trace' = Append(trace, AckCall(evt))
          /\ pc' = "handleMentions"
     ELSE /\ trace' = trace \o
               << AckCall(evt),
                  LogLine("WARN", errNotImplementedEvent[1], Nil) >>
          /\ pc' = "select"
  /\ UNCHANGED <<processor, Events, closed, cancelled, arrived, evt, handled, inflight,
                 msgs, idx, pmls, found, answer>>

\* A handleEventsAPI that takes every inner event of a callback for a
\* mention.
handleEventsAPIAnyInner ==
  /\ pc = "handleEventsAPI"
  /\ IF ~isAPIEvent(evt)
     THEN /\ trace' = Append(trace, LogLine("WARN", errIgnoredInvalidAPI[1], Nil))
          /\ pc' = "select"
     ELSE IF evt.Data.Type # CallbackEvent
     THEN /\ trace' = Append(trace, AckCall(evt))
          /\ pc' = "select"
     ELSE /\ trace' = Append(trace, AckCall(evt))
          /\ pc' = "handleMentions"
  /\ UNCHANGED <<processor, Events, closed, cancelled, arrived, evt, handled, inflight,
                 msgs, idx, pmls, found, answer>>

\* handleEventsAPI up to the call of handleMentions.
handleEventsAPI ==
  /\ pc = "handleEventsAPI"
  /\ IF ~isAPIEvent(evt)
     THEN /\ trace' = Append(trace, LogLine("WARN", errIgnoredInvalidAPI[1], Nil))
          /\ pc' = "select"
     ELSE IF evt.Data.Type # CallbackEvent
     THEN /\ trace' = Append(trace, AckCall(evt))
          /\ pc' = "select"
     ELSE IF evt.Data.Inner.shape = "AppMentionEvent"
     THEN /\ trace' = Append(trace, AckCall(evt))
          /\ pc' = "handleMentions"
     ELSE /\ trace' = trace \o
               << AckCall(evt),
                  LogLine("WARN", errNotImplementedEvent[1], Nil) >>
          /\ pc' = "select"
  /\ UNCHANGED <<processor, Events, closed, cancelled, arrived, evt, handled, inflight,
                 msgs, idx, pmls, found, answer>>

\* A handleEventsAPI that hands the error of handleMentions on to
\* HandleEvents, which returns on it.
ReturnFatal(err) ==
  /\ trace' = trace \o <<[kind |-> "return", err |-> err]>> \o
              (IF err # Nil
               THEN <<LogLine("ERROR", errHandleEvent[1], err)>> ELSE <<>>)
  /\ pc' = IF err # Nil THEN "returned" ELSE "select"
  /\ inflight' = NoCall
  /\ msgs' = <<>>
  /\ idx' = 0
  /\ pmls' = <<>>
  /\ found' = NoFound

\* handleMentions returns err to handleEventsAPI, which logs it if it is one.
Return(err) ==
  /\ trace' = trace \o <<[kind |-> "return", err |-> err]>> \o
              (IF err # Nil
               THEN <<LogLine("ERROR", errHandleEvent[1], err)>> ELSE <<>>)
  /\ pc' = "select"
  /\ inflight' = NoCall
  /\ msgs' = <<>>
  /\ idx' = 0
  /\ pmls' = <<>>
  /\ found' = NoFound

\* As Return, after the lines `more` were added for the event.
ReturnAfter(more, err) ==
  /\ trace' = trace \o more \o <<[kind |-> "return", err |-> err]>> \o
              (IF err # Nil
               THEN <<LogLine("ERROR", errHandleEvent[1], err)>> ELSE <<>>)
  /\ pc' = "select"
  /\ inflight' = NoCall
  /\ msgs' = <<>>
  /\ idx' = 0
  /\ pmls' = <<>>
  /\ found' = NoFound

\* A command check with a shorter keyword.
isSummarizeShort(text) == Contains(text, <<"s","u","m">>)

\* strings.Contains(event.Text, string(CommandSummarize))
isSummarize(text) == Contains(text, CommandSummarize)

\* A thread check that gives way to the command: a mention outside a thread
\* that asks to summarize goes on to the summarization.
notInThreadUnlessCommand(event) ==
  event.ThreadTimeStamp = <<>> /\ ~isSummarize(event.Text)

\* event.ThreadTimeStamp == ""
notInThread(event) == event.ThreadTimeStamp = <<>>

PostEphemeralCall(event) ==
  [kind |-> "PostEphemeral", Channel |-> event.Channel, User |-> event.User,
   Text |-> <<"B","o","t"," ","i","s"," ","o","n","l","y"," ","u","s","a","b","l",
              "e"," ","i","n"," ","t","h","r","e","a","d","s"," ","t","o"," ","s",
              "u","m","m","a","r","i","z","e"," ","t","h","e","m">>]

GetConversationRepliesCall(channelID, threadTS) ==
  [kind |-> "GetConversationReplies", ChannelID |-> channelID,
   Timestamp |-> threadTS, Limit |-> 1000]

\* handleMentions up to its first network call, and processThread up to its.
handleMentions ==
  /\ pc = "handleMentions"
  /\ LET event == evt.Data.Inner
     IN IF notInThread(event)
        THEN /\ trace' = Append(trace, PostEphemeralCall(event))
             /\ inflight' = [kind |-> "PostEphemeral", ctx |-> "ctx",
                             timeout |-> FALSE, late |-> cancelled]
             /\ pc' = "PostEphemeral"
             /\ UNCHANGED <<msgs, idx, pmls, found>>
        ELSE IF isSummarize(event.Text)
        THEN /\ trace' = Append(trace,
                  GetConversationRepliesCall(event.Channel, event.ThreadTimeStamp))
             /\ inflight' = [kind |-> "GetConversationReplies", ctx |-> "ctx",
                             timeout |-> FALSE, late |-> cancelled]
             /\ pc' = "GetConversationReplies"
             /\ UNCHANGED <<msgs, idx, pmls, found>>
        ELSE Return(WrapErrorWithTrace("parsing command", ErrInvalidCommandType))
  /\ UNCHANGED <<processor, Events, closed, cancelled, arrived, evt, handled, answer>>

\* handleMentions after PostEphemeralContext has returned err.
ephemeralDone(err) ==
  IF err # Nil
  THEN Return(WrapErrorWithTrace("unable to post ephemeral notification", err))
  ELSE Return(Nil)

\* A call that was given ctx does not succeed once ctx is done.
MaySucceed == ~(cancelled /\ inflight.ctx = "ctx")

PostEphemeralReturn ==
  /\ pc = "PostEphemeral"
  /\ \E err \in {Nil, SlackAPIError} :
       /\ err = Nil => MaySucceed
       /\ answer' = [call |-> "PostEphemeral", err |-> err]
       /\ ephemeralDone(err)
  /\ UNCHANGED <<processor, Events, closed, cancelled, arrived, evt, handled>>

\* A processThread that drops the error of GetConversationRepliesContext.
repliesFailedSilent(err) == Return(Nil)

\* processThread and handleMentions after GetConversationRepliesContext has
\* failed with err.
repliesFailed(err) ==
  Return(WrapErrorWithTrace("processing thread",
           WrapErrorWithTrace("get slack thread replies", err)))

\* What GetConversationRepliesContext has returned besides the messages, as
\* trace keeps it: whether the thread has more replies than the page holds.
RepliesReturn(m, hasMore) ==
  [kind |-> "GetConversationRepliesReturn", msgs |-> m, hasMore |-> hasMore]

\* A processThread that fetches the next page when the answer says there is
\* one.
repliesFetchedPaging(m, hasMore) ==
  IF hasMore /\ msgs = <<>>
  THEN /\ msgs' = m
       /\ trace' = trace \o
            <<RepliesReturn(m, hasMore),
              GetConversationRepliesCall(evt.Data.Inner.Channel,
                                         evt.Data.Inner.ThreadTimeStamp)>>
       /\ UNCHANGED <<pc, inflight, idx, pmls, found>>
  ELSE /\ msgs' = msgs \o m
       /\ idx' = 1
       /\ pmls' = <<>>
       /\ found' = NoFound
       /\ inflight' = NoCall
       /\ trace' = trace \o
            <<RepliesReturn(m, hasMore),
              [kind |-> "SummarizeThread", msgs |-> msgs \o m,
               channelID |-> evt.Data.Inner.Channel,
               threadTS |-> evt.Data.Inner.ThreadTimeStamp]>>
       /\ pc' = "SummarizeThread"

\* processThread after GetConversationRepliesContext has returned m: hasMore
\* and the cursor are dropped, and SummarizeThread is called.
repliesFetched(m, hasMore) ==
  /\ msgs' = m
  /\ idx' = 1
  /\ pmls' = <<>>
  /\ found' = NoFound
  /\ inflight' = NoCall
  /\ trace' = trace \o
       <<RepliesReturn(m, hasMore),
         [kind |-> "SummarizeThread", msgs |-> m,
          channelID |-> evt.Data.Inner.Channel,
          threadTS |-> evt.Data.Inner.ThreadTimeStamp]>>
  /\ pc' = "SummarizeThread"

GetConversationRepliesReturn ==
  /\ pc = "GetConversationReplies"
  /\ \/ /\ MaySucceed
        /\ answer' = [call |-> "GetConversationReplies", err |-> Nil]
        /\ \E m \in Threads, hasMore \in BOOLEAN : repliesFetched(m, hasMore)
     \/ /\ answer' = [call |-> "GetConversationReplies", err |-> SlackAPIError]
        /\ repliesFailed(SlackAPIError)
  /\ UNCHANGED <<processor, Events, closed, cancelled, arrived, evt, handled>>

\* A call that was given ctx, or its own timeout, fails when ctx is done, or
\* the time is over.
CallAborted ==
  /\ inflight.kind # "none"
  /\ \/ inflight.ctx = "ctx" /\ cancelled
     \/ inflight.timeout
  /\ answer' = [call |-> inflight.kind, err |-> ContextCanceledError]
  /\ CASE inflight.kind = "PostEphemeral" -> ephemeralDone(ContextCanceledError)
       [] inflight.kind = "GetConversationReplies" ->
            repliesFailed(ContextCanceledError)
       [] OTHER -> FALSE
  /\ UNCHANGED <<processor, Events, closed, cancelled, arrived, evt, handled>>

\* SummarizeThread: the loop body for msgs[idx] once the link f is found, or
\* not: a message without a link, or with several, is skipped; for a link
\* the title extractor is called.  With no title extractor under the key of
\* the provider the map gives nil, and the call of nil panics: nothing
\* recovers, the program ends.
linkFound(f) ==
  IF f.err # Nil
  THEN /\ idx' = idx + 1
       /\ UNCHANGED <<pc, trace, inflight, found>>
  ELSE IF f.provider \notin processor.titleParser
  THEN /\ pc' = "panic"
       /\ trace' = Append(trace, [kind |-> "panic", provider |-> f.provider])
       /\ UNCHANGED <<idx, inflight, found>>
  ELSE /\ found' = f
       /\ trace' = Append(trace,
            [kind |-> "TitleExtractor", provider |-> f.provider, url |-> f.url])
       /\ inflight' = [kind |-> "TitleExtractor", ctx |-> "TODO",
                       timeout |-> FALSE, late |-> cancelled]
       /\ pc' = "TitleExtractor"
       /\ UNCHANGED idx

\* SummarizeThread: the loop body for msgs[idx], up to the call of the title
\* extractor.
extractMusicURL ==
  /\ pc = "SummarizeThread"
  /\ idx <= Len(msgs)
  /\ \E o \in OrdersOf(processor.processors) :
       linkFound(extractFrom(msgs[idx].Text, o, 1))
  /\ UNCHANGED <<processor, Events, closed, cancelled, arrived, evt, handled, answer, msgs, pmls>>

\* A SummarizeThread that puts each link in front of those it has.
appendedInFront(m) ==
  IF m.err # Nil THEN pmls
  ELSE <<[Title |-> m.Title, URL |-> m.URL, Type |-> m.Type]>> \o pmls

\* A SummarizeThread that appends each link twice.
appendedTwice(m) ==
  IF m.err # Nil THEN pmls
  ELSE pmls \o << [Title |-> m.Title, URL |-> m.URL, Type |-> m.Type],
                  [Title |-> m.Title, URL |-> m.URL, Type |-> m.Type] >>

\* SummarizeThread: pmls after extractMusicURL has returned m
appended(m) ==
  IF m.err # Nil THEN pmls
  ELSE Append(pmls, [Title |-> m.Title, URL |-> m.URL, Type |-> m.Type])

\* What the title extractor has returned, as trace keeps it.
TitleReturn(t) ==
  [kind |-> "TitleExtractorReturn", title |-> t.title, ok |-> t.err = Nil]

\* The title extractor returns: the rest of the loop body for msgs[idx].
TitleExtractorReturn ==
  /\ pc = "TitleExtractor"
  /\ \E resp \in ResponsesFor(found.provider, found.url) :
       /\ pmls' = appended(parseTitle(found, resp))
       /\ answer' = [call |-> "TitleExtractor",
                     err |-> titleExtractors(found.provider, resp).err]
       /\ trace' = Append(trace,
                          TitleReturn(titleExtractors(found.provider, resp)))
  /\ idx' = idx + 1
  /\ found' = NoFound
  /\ inflight' = NoCall
  /\ pc' = "SummarizeThread"
  /\ UNCHANGED <<processor, Events, closed, cancelled, arrived, evt, handled, msgs>>

\* A processThread that uploads nothing when the artifact has no data row.
uploadUnlessEmpty(r) ==
  IF r.err # Nil
  THEN Return(WrapErrorWithTrace("processing thread",
                WrapErrorWithTrace("summarizing thread", r.err)))
  ELSE IF r.params.Reader = csvJoin(CSVHeader)
  THEN Return(Nil)
  ELSE /\ trace' = Append(trace, [kind |-> "UploadFileV2", params |-> r.params])
       /\ inflight' = [kind |-> "UploadFileV2", ctx |-> "Background",
                       timeout |-> FALSE, late |-> cancelled]
       /\ pc' = "UploadFileV2"
       /\ UNCHANGED <<msgs, idx, pmls, found>>

\* processThread after SummarizeThread has returned r, up to UploadFileV2.
upload(r) ==
  IF r.err # Nil
  THEN Return(WrapErrorWithTrace("processing thread",
                WrapErrorWithTrace("summarizing thread", r.err)))
  ELSE /\ trace' = Append(trace, [kind |-> "UploadFileV2", params |-> r.params])
       /\ inflight' = [kind |-> "UploadFileV2", ctx |-> "Background",
                       timeout |-> FALSE, late |-> cancelled]
       /\ pc' = "UploadFileV2"
       /\ UNCHANGED <<msgs, idx, pmls, found>>

\* SummarizeThread after its loop, and processThread up to UploadFileV2.
summarized ==
  /\ pc = "SummarizeThread"
  /\ idx > Len(msgs)
  /\ upload(uploadParameters(pmls, evt.Data.Inner.Channel,
                             evt.Data.Inner.ThreadTimeStamp))
  /\ UNCHANGED <<processor, Events, closed, cancelled, arrived, evt, handled, answer>>

\* A processThread that logs the completion before it looks at the error of
\* UploadFileV2.
uploadDoneLogsFirst(err) ==
  IF err # Nil
  THEN ReturnAfter(<<LogLine("INFO", "summarized thread", Nil)>>,
         WrapErrorWithTrace("processing thread",
           WrapErrorWithTrace("uploading file to reply", err)))
  ELSE ReturnAfter(<<LogLine("INFO", "summarized thread", Nil)>>, Nil)

\* processThread and handleMentions after UploadFileV2 has returned err.
uploadDone(err) ==
  IF err # Nil
  THEN Return(WrapErrorWithTrace("processing thread",
                WrapErrorWithTrace("uploading file to reply", err)))
  ELSE ReturnAfter(<<LogLine("INFO", "summarized thread", Nil)>>, Nil)

UploadFileV2Return ==
  /\ pc = "UploadFileV2"
  /\ \E err \in {Nil, SlackAPIError} :
       /\ answer' = [call |-> "UploadFileV2", err |-> err]
       /\ uploadDone(err)
  /\ UNCHANGED <<processor, Events, closed, cancelled, arrived, evt, handled>>

\* The steps of HandleEvents itself.
Step ==
  \/ SelectDone
  \/ SelectClosed
  \/ SelectEvent
  \/ handleEventsAPI
  \/ handleMentions
  \/ extractMusicURL
  \/ summarized

\* The answers of the servers.
Answer ==
  \/ PostEphemeralReturn
  \/ GetConversationRepliesReturn
  \/ TitleExtractorReturn
  \/ UploadFileV2Return

Next ==
  \/ Arrive
  \/ CloseEvents
  \/ Cancel
  \/ Step
  \/ Answer
  \/ CallAborted

Spec == Init /\ [][Next]_vars

\* A select of HandleEvents with a case that is ready takes one: with ctx done
\* it returns, unless it takes an event first.  Nothing else is assumed to
\* happen: no server is bound to answer.
FairSpec == Spec /\ WF_vars(SelectDone \/ SelectClosed \/ SelectEvent)

(***************************************************************************)
(* The summarizer on its own: SummarizeThread from its call in             *)
(* processThread to the return of the upload, on threads whose messages    *)
(* are built from links and the prose around them.                         *)
(***************************************************************************)
\* Links, after those of the tests of the extractors.
SpotifyTrackURL ==
  <<"h","t","t","p","s",":","/","/","o","p","e","n",".","s","p","o","t","i",
    "f","y",".","c","o","m","/","t","r","a","c","k","/","4","c","O","d","K",
    "2">>

SpotifyQueryURL ==
  <<"h","t","t","p",":","/","/","s","p","o","t","i","f","y",".","c","o","m",
    "/","t","r","a","c","k","/","a","-","b","?","s","i","=","c","1">>

YouTubeWatchURL ==
  <<"h","t","t","p","s",":","/","/","w","w","w",".","y","o","u","t","u","b",
    "e",".","c","o","m","/","w","a","t","c","h","?","v","=","d","Q","w",
    "4">>

YouTubeShortURL ==
  <<"h","t","t","p","s",":","/","/","y","o","u","t","u",".","b","e","/","d",
    "Q","w","-","9">>

YouTubeMusicURL ==
  <<"h","t","t","p","s",":","/","/","m","u","s","i","c",".","y","o","u","t",
    "u","b","e",".","c","o","m","/","w","a","t","c","h","?","v","=","d","Q",
    "w","4","&","l","i","s","t","=","R","D","1">>

YouTubeMusicHTTPURL ==
  <<"h","t","t","p",":","/","/","m","u","s","i","c",".","y","o","u","t","u",
    "b","e",".","c","o","m","/","w","a","t","c","h","?","v","=","x","y",
    "z">>

\* Texts whose only link is one no provider covers.
SpotifyPlaylistText ==
  <<"M","y"," ","p","l","a","y","l","i","s","t"," ","h","t","t","p","s",":",
    "/","/","o","p","e","n",".","s","p","o","t","i","f","y",".","c","o","m",
    "/","p","l","a","y","l","i","s","t","/","3","7","i","9","d","Q">>

SpotifyAlbumText ==
  <<"G","r","e","a","t"," ","a","l","b","u","m"," ","h","t","t","p","s",":",
    "/","/","o","p","e","n",".","s","p","o","t","i","f","y",".","c","o","m",
    "/","a","l","b","u","m","/","4","L","H","4","d","3">>

SpotifyArtistText ==
  <<"C","h","e","c","k"," ","o","u","t"," ","h","t","t","p","s",":","/","/",
    "s","p","o","t","i","f","y",".","c","o","m","/","a","r","t","i","s","t",
    "/","0","T","n","O","Y","I">>

YouTubePlaylistText ==
  <<"C","h","e","c","k"," ","o","u","t"," ","h","t","t","p","s",":","/","/",
    "w","w","w",".","y","o","u","t","u","b","e",".","c","o","m","/","p","l",
    "a","y","l","i","s","t","?","l","i","s","t","=","P","L","r","A","X">>

YouTubeMusicPlaylistText ==
  <<"P","l","a","y","l","i","s","t"," ","h","t","t","p","s",":","/","/","m",
    "u","s","i","c",".","y","o","u","t","u","b","e",".","c","o","m","/","p",
    "l","a","y","l","i","s","t","?","l","i","s","t","=","R","D","C","L","&",
    "p","l","a","y","n","e","x","t","=","1">>

NoLinksText ==
  <<"n","o"," ","l","i","n","k","s"," ","h","e","r","e">>

\* The links a message may hold, each with the provider that covers it.
SingleLinks ==
  { [url |-> SpotifyTrackURL, provider |-> SpotifyProvider],
    [url |-> SpotifyQueryURL, provider |-> SpotifyProvider],
    [url |-> YouTubeWatchURL, provider |-> YouTubeProvider],
    [url |-> YouTubeShortURL, provider |-> YouTubeProvider],
    [url |-> YouTubeMusicURL, provider |-> YoutTubeMusicProvider],
    [url |-> YouTubeMusicHTTPURL, provider |-> YoutTubeMusicProvider] }

\* The prose before a link, and after it.  What follows a link starts with
\* a character that no pattern takes for a part of the link.
Before ==
  { <<>>,
    <<"C","h","e","c","k"," ","o","u","t"," ">>,
    <<"l","i","n","k",":","(">>,
    <<"o","n"," ","s","p","o","t","i","f","y",".","c","o","m"," ","o","r"," ","y","o","u","t","u","b","e",".","c","o","m",":"," ">> }

After ==
  { <<>>,
    <<" ","n","o","w">>,
    <<")",".">>,
    <<","," ","o","k","?">> }

\* The texts that hold one link of one provider and nothing of another,
\* with the link and its provider.  In the last the question mark that ends
\* the sentence is a part of the link: the Spotify pattern takes it.
SingleCases ==
  { [Text |-> b \o l.url \o a, url |-> l.url, provider |-> l.provider] :
      b \in Before, l \in SingleLinks, a \in After }
  \cup { [Text |-> <<"i","s"," ","i","t"," ">> \o SpotifyTrackURL \o <<"?">>,
          url |-> SpotifyTrackURL \o <<"?">>, provider |-> SpotifyProvider] }

\* The texts that hold two or three links of one provider, with the
\* provider.
\* The pairs of links of one provider.
SameProvider ==
  {p \in SingleLinks \X SingleLinks : p[1].provider = p[2].provider}

ManyCases ==
  { [Text |-> <<"C","h","e","c","k"," ">> \o p[1].url
                \o <<" ","a","n","d"," ">> \o p[2].url,
     provider |-> p[1].provider] : p \in SameProvider }
  \cup { [Text |-> l.url \o <<" ">> \o l.url \o <<"\n">> \o l.url,
          provider |-> l.provider] : l \in SingleLinks }

\* The texts whose only links are ones the extractor of the provider does not
\* cover: for Spotify a playlist, an album and an artist; for YouTube a
\* playlist and the links of YouTube Music; for YouTube Music a playlist and
\* the links of YouTube.
SiblingCases ==
  { [Text |-> t, provider |-> SpotifyProvider] :
      t \in {SpotifyPlaylistText, SpotifyAlbumText, SpotifyArtistText} }
  \cup { [Text |-> YouTubePlaylistText, provider |-> YouTubeProvider] }
  \cup { [Text |-> c.Text, provider |-> YouTubeProvider] :
          c \in {d \in SingleCases : d.provider = YoutTubeMusicProvider} }
  \cup { [Text |-> YouTubeMusicPlaylistText, provider |-> YoutTubeMusicProvider] }
  \cup { [Text |-> c.Text, provider |-> YoutTubeMusicProvider] :
          c \in {d \in SingleCases : d.provider = YouTubeProvider} }

\* The texts without a link.
PlainTexts == { <<>>, NoLinksText }

\* The texts with links of two providers: one of each, and one of Spotify
\* with two of YouTube.
MixedTexts ==
  { SpotifyTrackURL \o <<" ","a","n","d"," ">> \o YouTubeShortURL,
    YouTubeWatchURL \o <<" ">> \o YouTubeMusicURL,
    SpotifyTrackURL \o <<" ","v","s"," ">> \o YouTubeWatchURL \o <<" ">>
      \o YouTubeShortURL }

\* Every text a message of a thread may be.
CaseTexts ==
  {c.Text : c \in SingleCases} \cup {c.Text : c \in ManyCases}
    \cup {c.Text : c \in SiblingCases} \cup PlainTexts \cup MixedTexts

\* The texts of the threads of more than one message: a link of each
\* provider, a text without a link and one with two links.
FewTexts ==
  { SpotifyTrackURL, YouTubeShortURL, YouTubeMusicURL, NoLinksText,
    <<"C","h","e","c","k"," ">> \o YouTubeWatchURL \o <<" ","a","n","d"," ">> \o YouTubeShortURL }

\* The thread of the end-to-end scenario: a link of Spotify after a word, a
\* message without a link, a link of YouTube.
SampleThread ==
  << [Text |-> <<"c","h","e","c","k"," ">> \o SampleSpotifyURL],
     [Text |-> NoLinksText],
     [Text |-> SampleYouTubeURL] >>

\* The threads: the empty one, those of one message of any text, those of up
\* to MaxMsgs messages of the few texts, and the one of the scenario.
CaseThreads ==
  {<<>>, SampleThread}
    \cup { <<[Text |-> t]>> : t \in CaseTexts }
    \cup UNION { [1..n -> { [Text |-> t] : t \in FewTexts }] : n \in 2..MaxMsgs }

\* The mention that asks for the summary.
SummarizeMention ==
  [shape |-> "AppMentionEvent", Type |-> "app_mention", User |-> <<"U","1">>,
   Channel |-> <<"C","1">>, Text |-> CommandSummarize,
   ThreadTimeStamp |-> <<"1","7","0","0",".","0","1">>]

SummarizeEvent ==
  EventOf(1, [Type |-> EventTypeEventsAPI,
              Data |-> [shape |-> "EventsAPIEvent", Type |-> CallbackEvent,
                        Inner |-> SummarizeMention]])

\* processThread at its call of SummarizeThread, for the first event of a
\* run, with the replies m fetched.
SummarizeInit ==
  /\ Events = <<>>
  /\ closed = FALSE
  /\ cancelled = FALSE
  /\ arrived = 1
  /\ pc = "SummarizeThread"
  /\ evt = SummarizeEvent
  /\ handled = <<1>>
  /\ inflight = NoCall
  /\ idx = 1
  /\ pmls = <<>>
  /\ found = NoFound
  /\ answer = [call |-> "GetConversationReplies", err |-> Nil]
  /\ processor = NewSlackMessageProcessor(urlProcessorKeys, titleExtractorKeys)
  /\ \E m \in CaseThreads :
       /\ msgs = m
       /\ trace =
            << AckCall(SummarizeEvent),
               GetConversationRepliesCall(SummarizeMention.Channel,
                                          SummarizeMention.ThreadTimeStamp),
               [kind |-> "SummarizeThread", msgs |-> m,
                channelID |-> SummarizeMention.Channel,
                threadTS |-> SummarizeMention.ThreadTimeStamp] >>

SummarizeNext ==
  \/ extractMusicURL
  \/ TitleExtractorReturn
  \/ summarized
  \/ UploadFileV2Return

SummarizeSpec == SummarizeInit /\ [][SummarizeNext]_vars

(***************************************************************************)
(* The processor built from any two registries: main before it builds the  *)
(* processor, then SummarizeThread as above.                               *)
(***************************************************************************)
\* The registries a caller may give: the extractors of some providers, the
\* title extractors of some.
Registries == (SUBSET Providers) \ {{}}

TitleRegistries == SUBSET Providers

\* The threads the built processor is given.
BuildThreads ==
  UNION { [1..n -> { [Text |-> t] : t \in FewTexts }] : n \in 1..MaxMsgs }

BuildInit ==
  /\ Events = <<>>
  /\ closed = FALSE
  /\ cancelled = FALSE
  /\ arrived = 0
  /\ pc = "main"
  /\ evt = NoEvent
  /\ handled = <<>>
  /\ trace = <<>>
  /\ inflight = NoCall
  /\ msgs = <<>>
  /\ idx = 0
  /\ pmls = <<>>
  /\ found = NoFound
  /\ answer = NoAnswer
  /\ processor = NewSlackMessageProcessor({}, {})

\* main builds the processor from the registries urlP and tp, and the bot
\* comes to call SummarizeThread on the replies m of a thread.
built(urlP, tp, m) ==
  /\ processor' = NewSlackMessageProcessor(urlP, tp)
  /\ msgs' = m
  /\ trace' =
       << AckCall(SummarizeEvent),
          GetConversationRepliesCall(SummarizeMention.Channel,
                                     SummarizeMention.ThreadTimeStamp),
          [kind |-> "SummarizeThread", msgs |-> m,
           channelID |-> SummarizeMention.Channel,
           threadTS |-> SummarizeMention.ThreadTimeStamp] >>

mainBuilds ==
  /\ pc = "main"
  /\ \E urlP \in Registries, tp \in TitleRegistries, m \in BuildThreads :
       built(urlP, tp, m)
  /\ pc' = "SummarizeThread"
  /\ evt' = SummarizeEvent
  /\ handled' = <<1>>
  /\ arrived' = 1
  /\ idx' = 1
  /\ answer' = [call |-> "GetConversationReplies", err |-> Nil]
  /\ UNCHANGED <<Events, closed, cancelled, inflight, pmls, found>>

BuildNext ==
  \/ mainBuilds
  \/ extractMusicURL
  \/ TitleExtractorReturn
  \/ summarized
  \/ UploadFileV2Return

BuildSpec == BuildInit /\ [][BuildNext]_vars

(***************************************************************************)
(* What is observed of the handling of evt.                                *)
(***************************************************************************)
\* HandleEvents is between two events, or has returned.
Idle == pc \in {"select", "returned"}

\* The places of trace with an entry of the kind.
Entries(kind) == {i \in DOMAIN trace : trace[i].kind = kind}

\* The places of trace with the log line msg.
LogEntries(msg) ==
  {i \in DOMAIN trace : trace[i].kind = "log" /\ trace[i].msg = msg}

\* The places of trace with an outbound call other than the acknowledgment.
OtherCalls ==
  Entries("PostEphemeral") \cup Entries("GetConversationReplies")
    \cup Entries("SummarizeThread") \cup Entries("TitleExtractor")
    \cup Entries("UploadFileV2")

\* evt is of the kind events-api.
IsEventsAPI == evt.Type = EventTypeEventsAPI

\* evt is of the kind events-api and its payload is an EventsAPIEvent.
WellFormed == IsEventsAPI /\ evt.Data.shape = "EventsAPIEvent"

\* evt is a callback with a mention of the bot.
IsMention ==
  /\ WellFormed
  /\ evt.Data.Type = CallbackEvent
  /\ evt.Data.Inner.shape = "AppMentionEvent"

\* handleEventsAPI has gone past its acknowledgment for evt.
PastAck == pc # "handleEventsAPI"

\* handleMentions has branched for evt.
PastBranch == pc \notin {"handleEventsAPI", "handleMentions"}

\* The one acknowledgment of evt, with the request of evt.
AckedOnce ==
  /\ Cardinality(Entries("Ack")) = 1
  /\ \A i \in Entries("Ack") : trace[i].Request = evt.Request

(***************************************************************************)
(* The event dispatcher: acknowledgment and command routing.               *)
(***************************************************************************)
\* C1, as stated: every events-api event that HandleEvents receives is
\* acknowledged exactly once, with the request of that same event, also
\* when its payload is malformed.
C1_AckEveryEventsAPI == (IsEventsAPI /\ PastAck) => AckedOnce

\* C1, amended: every events-api event whose payload is an EventsAPIEvent is
\* acknowledged exactly once, with the request of that same event; an
\* events-api event whose payload is malformed is not acknowledged.
C1_AckWellFormed ==
  /\ (WellFormed /\ PastAck) => AckedOnce
  /\ (IsEventsAPI /\ ~WellFormed) => Entries("Ack") = {}

\* The second event of a run, well-formed, is handled and acknowledged with
\* its own request.
C1_Witness ==
  /\ WellFormed
  /\ Idle
  /\ evt.id = 2
  /\ \E i \in Entries("Ack") : trace[i].Request = 2

\* C2: for an events-api event with a well-formed payload the acknowledgment
\* is sent whatever the outcome of the handling is, and every other outbound
\* call made for the event comes after it.
C2_AckFirst ==
  (WellFormed /\ PastAck) =>
    /\ Entries("Ack") # {}
    /\ \A i \in OtherCalls : \E j \in Entries("Ack") : j < i

\* A summarization whose upload failed: the acknowledgment came first.
C2_Witness ==
  /\ WellFormed
  /\ Idle
  /\ answer.call = "UploadFileV2"
  /\ answer.err # Nil
  /\ 1 \in Entries("Ack")
  /\ Entries("UploadFileV2") # {}

\* evt is a mention outside a thread.
MentionOutsideThread == IsMention /\ evt.Data.Inner.ThreadTimeStamp = <<>>

\* C3: a mention whose thread timestamp is empty yields exactly one ephemeral
\* notice, to the channel and the user of the mention, and no fetch of the
\* replies, no call of the Summarizer and no upload, whatever its text is.
C3_NoticeOutsideThread ==
  MentionOutsideThread =>
    /\ Entries("GetConversationReplies") = {}
    /\ Entries("SummarizeThread") = {}
    /\ Entries("TitleExtractor") = {}
    /\ Entries("UploadFileV2") = {}
    /\ Cardinality(Entries("PostEphemeral")) = IF PastBranch THEN 1 ELSE 0
    /\ \A i \in Entries("PostEphemeral") :
         /\ trace[i].Channel = evt.Data.Inner.Channel
         /\ trace[i].User = evt.Data.Inner.User

\* A mention outside a thread whose text holds the keyword was handled, and
\* its author in the second channel was sent the notice.
C3_Witness ==
  /\ MentionOutsideThread
  /\ Contains(evt.Data.Inner.Text, CommandSummarize)
  /\ evt.Data.Inner.Channel = <<"C","2">>
  /\ pc = "select"
  /\ Cardinality(Entries("PostEphemeral")) = 1

\* evt is a mention in a thread whose text does not hold the keyword.
MentionWithoutCommand ==
  /\ IsMention
  /\ evt.Data.Inner.ThreadTimeStamp # <<>>
  /\ ~Contains(evt.Data.Inner.Text, CommandSummarize)

\* C4: a mention in a thread whose text does not contain "summarize" yields
\* ErrInvalidCommandType to the caller, and no fetch of the replies, no call
\* of the Summarizer, no upload and no ephemeral notice.
C4_InvalidCommand ==
  MentionWithoutCommand =>
    /\ OtherCalls = {}
    /\ PastBranch =>
         /\ Idle
         /\ Cardinality(Entries("return")) = 1
         /\ \A i \in Entries("return") :
              ErrorsIs(trace[i].err, ErrInvalidCommandType)

\* The mention "Summarize", in a thread, was refused.
C4_Witness ==
  /\ MentionWithoutCommand
  /\ evt.Data.Inner.Text = <<"S","u","m","m","a","r","i","z","e">>
  /\ pc = "select"
  /\ \E i \in Entries("return") : ErrorsIs(trace[i].err, ErrInvalidCommandType)

(***************************************************************************)
(* The summarization of a thread.                                          *)
(***************************************************************************)
\* evt is a mention in a thread whose text holds the keyword.
MentionWithCommand ==
  /\ IsMention
  /\ evt.Data.Inner.ThreadTimeStamp # <<>>
  /\ Contains(evt.Data.Inner.Text, CommandSummarize)

\* The steps of a summarization, in the order of processThread.
Pipeline ==
  <<"GetConversationReplies", "SummarizeThread", "UploadFileV2",
    "summarized thread">>

\* Whether the entry r of trace is a step of the summarization.
IsStep(r) ==
  \/ r.kind \in {"GetConversationReplies", "SummarizeThread", "UploadFileV2"}
  \/ r.kind = "log" /\ r.msg = "summarized thread"

StepName(r) == IF r.kind = "log" THEN r.msg ELSE r.kind

stepNames(sel) == [i \in 1..Len(sel) |-> StepName(sel[i])]

\* The steps of the summarization taken for evt, in order.
Steps == stepNames(SelectSeq(trace, IsStep))

IsPrefix(s, t) == Len(s) <= Len(t) /\ \A i \in 1..Len(s) : s[i] = t[i]

\* The call that returned last for evt failed.
Failed(call) == answer.call = call /\ answer.err # Nil

\* C5: a mention in a thread whose text contains "summarize" triggers the
\* fetch of the replies, the call of the Summarizer on the fetched messages,
\* the upload of what the Summarizer returned and the completion log, in
\* this order and each at most once; a step starts only after the step
\* before it has returned without error.
C5_SummarizeInOrder ==
  MentionWithCommand =>
    /\ IsPrefix(Steps, Pipeline)
    /\ PastBranch => Len(Steps) >= 1
    /\ \A i \in Entries("GetConversationReplies") :
         /\ trace[i].ChannelID = evt.Data.Inner.Channel
         /\ trace[i].Timestamp = evt.Data.Inner.ThreadTimeStamp
    /\ (pc = "GetConversationReplies" \/ Failed("GetConversationReplies"))
         => Len(Steps) = 1
    /\ pc \in {"SummarizeThread", "TitleExtractor"} =>
         /\ Len(Steps) = 2
         /\ \A i \in Entries("SummarizeThread") : trace[i].msgs = msgs
    /\ pc = "UploadFileV2" =>
         /\ Len(Steps) = 3
         /\ \A i \in Entries("UploadFileV2") :
              trace[i].params =
                uploadParameters(pmls, evt.Data.Inner.Channel,
                                 evt.Data.Inner.ThreadTimeStamp).params
    /\ Failed("UploadFileV2") => Len(Steps) = 3
    /\ Len(Steps) = 4 => (Idle /\ answer = [call |-> "UploadFileV2", err |-> Nil])

\* The mention "hi summarized", in a thread, was summarized to the end.
C5_Witness ==
  /\ MentionWithCommand
  /\ evt.Data.Inner.Text = <<"h","i"," ","s","u","m","m","a","r","i","z","e","d">>
  /\ pc = "select"
  /\ Steps = Pipeline

\* C6, as stated: no failure in the handling of an event ends the loop, and
\* HandleEvents returns only when ctx is done.
C6_ReturnsOnlyOnShutdown ==
  [][(pc # "returned" /\ pc' = "returned") => (pc = "select" /\ cancelled)]_vars

\* C6, amended: no failure in the handling of an event ends the loop:
\* HandleEvents returns only from its select, and only when ctx is done or
\* the channel of the events is closed and empty.
C6_ReturnsOnlyOnShutdownOrClose ==
  [][(pc # "returned" /\ pc' = "returned") =>
       /\ pc = "select"
       /\ cancelled \/ (closed /\ Events = <<>>)]_vars

\* An upload has failed, and HandleEvents is back at its select with the
\* next event to take, without a shutdown.
C6_Witness ==
  /\ Failed("UploadFileV2")
  /\ pc = "select"
  /\ Events # <<>>
  /\ ~cancelled

\* The error err was logged for evt.
ErrorLogged(err) ==
  \E i \in Entries("log") :
    /\ trace[i].level = "ERROR"
    /\ ErrorsIs(trace[i].err, err)

\* HandleEvents is at its select, or has returned from it on a shutdown.
LoopGoesOn == pc = "select" \/ (pc = "returned" /\ cancelled)

\* C7: when the fetch of the replies fails, the Summarizer is not called and
\* nothing is uploaded; when the upload fails, the completion is not logged;
\* in both cases the error is logged and the loop goes on.
C7_FailureAbortsAttempt ==
  /\ Failed("GetConversationReplies") =>
       /\ Entries("SummarizeThread") = {}
       /\ Entries("TitleExtractor") = {}
       /\ Entries("UploadFileV2") = {}
       /\ ErrorLogged(answer.err)
       /\ LoopGoesOn
  /\ Failed("UploadFileV2") =>
       /\ LogEntries("summarized thread") = {}
       /\ ErrorLogged(answer.err)
       /\ LoopGoesOn

\* The fetch of the replies has failed at the server, and HandleEvents is
\* back at its select with the next event to take.
C7_Witness ==
  /\ answer = [call |-> "GetConversationReplies", err |-> SlackAPIError]
  /\ pc = "select"
  /\ Events # <<>>

(***************************************************************************)
(* Shutdown and the calls in flight.                                       *)
(***************************************************************************)
\* HandleEvents waits in its select and there is no event to take.
Blocked == pc = "select" /\ Events = <<>>

\* C8: once ctx is done while HandleEvents waits for the next event,
\* HandleEvents returns, unless an event arrives first.
C8_ReturnsWhenCancelled ==
  (cancelled /\ Blocked) ~> (pc = "returned" \/ Events # <<>>)

\* HandleEvents has returned on the shutdown, and no event ever arrived.
C8_Witness ==
  /\ pc = "returned"
  /\ cancelled
  /\ ~closed
  /\ arrived = 0

\* The network calls of the handling of a mention.
NetworkCalls == {"GetConversationReplies", "TitleExtractor", "UploadFileV2"}

\* C9: a network call during which ctx becomes done does not run to its
\* completion: it returns with an error.
C9_CallsAbortOnCancel ==
  [][(/\ inflight.kind \in NetworkCalls
      /\ ~inflight.late
      /\ cancelled
      /\ inflight' # inflight) => answer'.err # Nil]_vars

\* C10: a title extractor that waits for its server can be ended without the
\* server: the call has a deadline of its own.
C10_TitleCallBounded == pc = "TitleExtractor" => ENABLED CallAborted

(***************************************************************************)
(* One event at a time, and the events that are only logged or dropped.    *)
(***************************************************************************)
\* The calls of a summarization.
SummarizationCalls == {"GetConversationReplies", "TitleExtractor", "UploadFileV2"}

\* C11: the next event is taken from the stream only when the handler of the
\* one before has run to its end, with no call in flight; so a call in
\* flight is always of the event taken last, and at most one summarization
\* is in flight.
C11_OneEventAtATime ==
  [][/\ handled' # handled =>
          /\ pc = "select"
          /\ inflight = NoCall
          /\ handled' = Append(handled, evt'.id)
     /\ inflight'.kind \in SummarizationCalls =>
          /\ evt'.id = handled'[Len(handled')]
          /\ pc' = inflight'.kind]_vars

\* The upload of a summarization is in flight while the next event waits in
\* the stream.
C11_Witness ==
  /\ inflight.kind = "UploadFileV2"
  /\ Events # <<>>
  /\ evt.id = 1

\* evt is of a kind other than events-api.
IsLogOnly == evt # NoEvent /\ ~IsEventsAPI

\* C12: an event of the kind connecting, connection-error, connected, hello
\* or of an unrecognised kind causes no outbound call: no acknowledgment, no
\* ephemeral notice, no fetch, no call of the Summarizer and no upload; it is
\* logged, and the loop is back at its select.
C12_LogOnlyKinds ==
  IsLogOnly =>
    /\ Entries("Ack") = {}
    /\ OtherCalls = {}
    /\ Len(trace) = 1
    /\ trace[1].kind = "log"
    /\ Idle

\* An event of an unrecognised kind, the second of the run, was logged.
C12_Witness ==
  /\ evt.Type = "disconnect"
  /\ evt.id = 2
  /\ trace = <<LogLine("WARN", "not implemented event received", Nil)>>
  /\ pc = "select"

\* evt is of the kind events-api and its payload is no EventsAPIEvent.
Malformed == IsEventsAPI /\ ~WellFormed

\* C13: an events-api event whose payload is no EventsAPIEvent is dropped: no
\* ephemeral notice, no fetch, no call of the Summarizer and no upload; it is
\* no fatal error, and the loop goes on with the next event.
C13_MalformedDropped ==
  Malformed =>
    /\ OtherCalls = {}
    /\ Entries("return") = {}
    /\ PastAck => LoopGoesOn

\* A malformed event was dropped, and HandleEvents is back at its select
\* with the next event to take.
C13_Witness ==
  /\ Malformed
  /\ pc = "select"
  /\ ~cancelled
  /\ Events # <<>>
  /\ LogEntries(errIgnoredInvalidAPI[1]) # {}

\* C14: an acknowledged events-api event that is no callback, or whose inner
\* event is no mention, causes no outbound call but the acknowledgment.
C14_OnlyAckForOtherEvents ==
  (WellFormed /\ ~IsMention) =>
    /\ OtherCalls = {}
    /\ PastAck => (AckedOnce /\ Idle)

\* A callback with a message event that asks to summarize was acknowledged
\* and dropped.
C14_Witness ==
  /\ WellFormed
  /\ evt.Data.Type = CallbackEvent
  /\ evt.Data.Inner = OtherInner
  /\ pc = "select"
  /\ Entries("Ack") = {1}

(***************************************************************************)
(* What is observed of SummarizeThread.                                    *)
(***************************************************************************)
\* The loop of SummarizeThread is about to extract from msgs[idx].
Extracting == pc = "SummarizeThread" /\ idx <= Len(msgs)

\* The call of the title extractor for the link of provider p at url.
TitleCall(p, url) == [kind |-> "TitleExtractor", provider |-> p, url |-> url]

\* C15: from a text that holds one link of one provider, and no link of
\* another, extraction returns that link with its provider, whatever the
\* prose around it and whatever the order the providers are tried in: every
\* step that extracts from such a message ends with that link found and
\* handed to the title extractor of that provider.
C15_SingleLinkExtracted ==
  [][Extracting =>
       \A c \in SingleCases :
         c.Text = msgs[idx].Text =>
           /\ found' = [url |-> c.url, provider |-> c.provider, err |-> Nil]
           /\ pc' = "TitleExtractor"
           /\ trace' = Append(trace, TitleCall(c.provider, c.url))]_vars

\* The link of a message with prose before and after it is found.
C15_Witness ==
  /\ pc = "TitleExtractor"
  /\ \E c \in SingleCases :
       /\ c.Text = msgs[idx].Text
       /\ Len(c.Text) > Len(c.url) + 3
       /\ c.Text[1] # "h"
       /\ c.Text[Len(c.Text)] = "?"
       /\ found.url = c.url
       /\ found.provider = YoutTubeMusicProvider

\* C16: for a text that holds two or more links of one provider, the
\* extractor of that provider returns ErrMultipleResult and the empty URL,
\* never the first match or another one: at every step that extracts from
\* such a message the extractor answers so, and no title extractor is called.
C16_ManyLinksAmbiguous ==
  [][Extracting =>
       \A c \in ManyCases :
         c.Text = msgs[idx].Text =>
           /\ urlProcessors(c.provider, msgs[idx].Text) =
                [url |-> <<>>, provider |-> c.provider,
                 err |-> ErrMultipleResult]
           /\ pc' # "TitleExtractor"
           /\ found' = NoFound]_vars

\* A message with three links of YouTube Music has been gone through.
C16_Witness ==
  /\ pc = "SummarizeThread"
  /\ idx = 2
  /\ Len(FindAllString(msgs[1].Text, youtubeMusicRegex)) = 3
  /\ \E c \in ManyCases : c.Text = msgs[1].Text
  /\ Entries("TitleExtractor") = {}

\* C17: the extractor of a provider returns ErrNoURLFound for a text whose
\* only links are ones the provider does not cover (for Spotify a playlist,
\* an album, an artist; for YouTube a playlist or a link of YouTube Music;
\* for YouTube Music a playlist or a link of YouTube): at every step that
\* extracts from such a message the extractor answers so, and the link
\* found, if any, is not of that provider.
C17_SiblingNotFound ==
  [][Extracting =>
       \A c \in SiblingCases :
         c.Text = msgs[idx].Text =>
           /\ urlProcessors(c.provider, msgs[idx].Text) =
                [url |-> <<>>, provider |-> c.provider, err |-> ErrNoURLFound]
           /\ found'.provider # c.provider]_vars

\* A message with the link of a Spotify album has been gone through, and
\* no title has been asked for.
C17_Witness ==
  /\ pc = "SummarizeThread"
  /\ idx = 2
  /\ msgs[1].Text = SpotifyAlbumText
  /\ Entries("TitleExtractor") = {}

\* The artifact read back, as a reader of semicolon-delimited text reads it
\* (encoding/csv with Comma ';'): a field that starts with a quote runs to
\* the closing quote, a doubled quote in it stands for one quote and a
\* carriage return before a line feed is dropped; another field runs to the
\* next semicolon or line feed; a line feed ends the record; empty lines
\* are not records.
\* The place where the field without quotes that starts at i ends.
plainEnd(s, i) ==
  CHOOSE j \in i..(Len(s) + 1) :
    /\ j = Len(s) + 1 \/ s[j] \in {";", "\n"}
    /\ \A k \in i..(j - 1) : s[k] \notin {";", "\n"}

\* The places of the quotes that may close the field opened by the quote
\* at i: an odd number of quotes since i, and no quote behind.
closingQuotes(s, i) ==
  { j \in (i + 1)..Len(s) :
      /\ s[j] = "\""
      /\ Cardinality({k \in (i + 1)..j : s[k] = "\""}) % 2 = 1
      /\ j = Len(s) \/ s[j + 1] # "\"" }

\* The place of the quote that closes the field opened at i; the end of the
\* text when none does.
firstOf(js, n) == IF js = {} THEN n + 1 ELSE CHOOSE j \in js : \A k \in js : j <= k

quotedEnd(s, i) == firstOf(closingQuotes(s, i), Len(s))

\* What stands between the quotes, as the reader returns it.
RECURSIVE unquote(_)
unquote(f) ==
  IF f = <<>> THEN <<>>
  ELSE IF Head(f) = "\"" /\ Len(f) > 1 THEN <<"\"">> \o unquote(Tail(Tail(f)))
  ELSE IF Head(f) = "\r" /\ Len(f) > 1 /\ f[2] = "\n" THEN unquote(Tail(f))
  ELSE <<Head(f)>> \o unquote(Tail(f))

\* csvRead(s, i, rec): the records of s from the field that starts at i, the
\* fields rec of its record being read.
RECURSIVE csvRead(_, _, _)
afterField(s, j, rec) ==
  IF j > Len(s) THEN <<rec>>
  ELSE IF s[j] = ";" THEN csvRead(s, j + 1, rec)
  ELSE <<rec>> \o csvRead(s, j + 1, <<>>)

quotedField(s, i, j, rec) ==
  afterField(s, j + 1, Append(rec, unquote(SubSeq(s, i + 1, j - 1))))

plainField(s, i, j, rec) == afterField(s, j, Append(rec, SubSeq(s, i, j - 1)))

csvRead(s, i, rec) ==
  IF i > Len(s) THEN (IF rec = <<>> THEN <<>> ELSE <<Append(rec, <<>>)>>)
  ELSE IF s[i] = "\n" /\ rec = <<>> THEN csvRead(s, i + 1, <<>>)
  ELSE IF s[i] = "\"" THEN quotedField(s, i, quotedEnd(s, i), rec)
  ELSE plainField(s, i, plainEnd(s, i), rec)

ParseCSV(s) == csvRead(s, 1, <<>>)

\* The thread SummarizeThread was called with.
Thread == trace[CHOOSE i \in Entries("SummarizeThread") : TRUE].msgs

\* SummarizeThread has returned, and processThread has gone on to the
\* upload, or has returned.
Summarized ==
  /\ Entries("SummarizeThread") # {}
  /\ pc = "UploadFileV2" \/ Entries("return") # {}

\* The file that is uploaded, and its rows as a reader finds them: the
\* header and the data rows.
Uploaded == Entries("UploadFileV2") # {}

Artifact == trace[CHOOSE i \in Entries("UploadFileV2") : TRUE].params.Reader

Rows == ParseCSV(Artifact)

DataRows == Tail(Rows)

\* The calls of the title extractors, and what they have returned, in the
\* order of the calls.
TitleCalls == SelectSeq(trace, LAMBDA e : e.kind = "TitleExtractor")

TitleReturns == SelectSeq(trace, LAMBDA e : e.kind = "TitleExtractorReturn")

\* Every message of the thread holds one link of one provider.
AllSingle ==
  \A i \in DOMAIN Thread : \E c \in SingleCases : c.Text = Thread[i].Text

\* The link of a text that holds one.
LinkOf(text) == (CHOOSE c \in SingleCases : c.Text = text).url

\* A field as the reader gives it: with every carriage return that stands
\* before a line feed dropped.
RECURSIVE dropCR(_)
dropCR(f) ==
  IF f = <<>> THEN <<>>
  ELSE IF Head(f) = "\r" /\ Len(f) > 1 /\ f[2] = "\n" THEN dropCR(Tail(f))
  ELSE <<Head(f)>> \o dropCR(Tail(f))

\* The calls from the i-th on whose title was resolved, in their order.
RECURSIVE Kept(_)
Kept(i) ==
  IF i > Len(TitleReturns) THEN <<>>
  ELSE (IF TitleReturns[i].ok THEN <<i>> ELSE <<>>) \o Kept(i + 1)

\* The fields of a row.
Fields(row) == {row[k] : k \in DOMAIN row}

\* C18: no message makes the summarizer fail.  For a thread of N messages
\* that each hold one link, K of which fail title resolution, SummarizeThread
\* returns without an error (the upload is made) and the artifact has
\* N - K data rows, in the order of their messages: the j-th row holds the
\* title and the link of the j-th message whose title was resolved (the
\* title as the reader gives it).
C18_RowsOfResolvedInOrder ==
  (Summarized /\ AllSingle) =>
    /\ Uploaded
    /\ Len(TitleReturns) = Len(Thread)
    /\ Len(DataRows) =
         Len(Thread)
           - Cardinality({i \in DOMAIN TitleReturns : ~TitleReturns[i].ok})
    /\ \A j \in DOMAIN DataRows :
         /\ DataRows[j][1] = dropCR(TitleReturns[Kept(1)[j]].title)
         /\ LinkOf(Thread[Kept(1)[j]].Text) \in Fields(DataRows[j])

\* Of two messages with a link each the first fails title resolution and
\* the second does not: the artifact has the one row of the second.
C18_Witness ==
  /\ pc = "UploadFileV2"
  /\ Len(msgs) >= 2
  /\ AllSingle
  /\ Len(TitleReturns) = Len(msgs)
  /\ ~TitleReturns[1].ok
  /\ TitleReturns[2].ok
  /\ Len(DataRows) = Len(msgs) - 1
  /\ msgs[2].Text = YouTubeShortURL
  /\ YouTubeShortURL \in Fields(DataRows[1])

\* The column of the links of provider p, the title being the first.
ColumnOf(p) ==
  CASE p = SpotifyProvider -> 2
    [] p = YouTubeProvider -> 3
    [] p = YoutTubeMusicProvider -> 4

\* C19: every artifact starts with the header row Title, Spotify URL,
\* YouTube URL, YouTube Music URL, and every data row has four fields: the
\* title that was resolved (as the reader gives it), the link that was found
\* in the column of its provider, and the empty string in the columns of the
\* two other providers.
C19_HeaderAndColumns ==
  Uploaded =>
    /\ Rows # <<>>
    /\ Rows[1] = << <<"T","i","t","l","e">>,
                    <<"S","p","o","t","i","f","y"," ","U","R","L">>,
                    <<"Y","o","u","T","u","b","e"," ","U","R","L">>,
                    <<"Y","o","u","T","u","b","e"," ","M","u","s","i","c"," ",
                      "U","R","L">> >>
    /\ Len(DataRows) = Len(Kept(1))
    /\ \A j \in DOMAIN DataRows :
         /\ Len(DataRows[j]) = 4
         /\ DataRows[j][1] = dropCR(TitleReturns[Kept(1)[j]].title)
         /\ \A p \in Providers :
              DataRows[j][ColumnOf(p)] =
                IF p = TitleCalls[Kept(1)[j]].provider
                THEN TitleCalls[Kept(1)[j]].url
                ELSE <<>>

\* An artifact of two data rows, the first for a link of YouTube Music and
\* the second for one of Spotify.
C19_Witness ==
  /\ Uploaded
  /\ Len(DataRows) = 2
  /\ DataRows[1][4] = YouTubeMusicURL
  /\ DataRows[2][2] = SpotifyTrackURL
  /\ DataRows[2][1] # <<>>

\* C20: when no message of the thread yields a link (the thread is empty, or
\* every message is skipped: no link, several links, or a title that is not
\* resolved), SummarizeThread returns no error, the artifact is the header
\* row and nothing else, and it is uploaded all the same.
C20_HeaderOnlyStillUploaded ==
  (Summarized /\ Kept(1) = <<>>) =>
    /\ Uploaded
    /\ Len(Rows) = 1
    /\ DataRows = <<>>
    /\ Artifact =
         <<"T","i","t","l","e",";","S","p","o","t","i","f","y"," ","U","R","L",
           ";","Y","o","u","T","u","b","e"," ","U","R","L",";","Y","o","u","T",
           "u","b","e"," ","M","u","s","i","c"," ","U","R","L","\n">>

\* A thread of two messages, the first without a link and the second with
\* one whose title is not resolved: the header alone is uploaded.
C20_Witness ==
  /\ pc = "UploadFileV2"
  /\ Len(msgs) = MaxMsgs
  /\ msgs[1].Text = NoLinksText
  /\ Len(TitleReturns) = MaxMsgs - 1
  /\ Kept(1) = <<>>
  /\ Len(Rows) = 1

\* The records createCSV has written after the header, while pmls is kept.
Written == [j \in DOMAIN pmls |-> csvRecord(pmls[j])]

\* A title with the delimiter, quotes and a line feed; one with a carriage
\* return before the line feed.
IsSpecial(title) == {";", "\"", "\n"} \subseteq Fields(title)

HasCRLF(title) == \E k \in 1..(Len(title) - 1) : title[k] = "\r" /\ title[k + 1] = "\n"

\* C21 as stated: reading the artifact as semicolon-delimited text gives
\* back the header row and then the rows that were written, field for field,
\* whatever the titles hold (the delimiter, quotes, line breaks).
C21_RoundTrip ==
  pc = "UploadFileV2" => Rows = <<CSVHeader>> \o Written

\* C21, amended: reading the artifact gives back the header row and then the
\* rows that were written, field for field, but for the carriage returns
\* that stand before a line feed in a title: the reader drops them.
C21_RoundTripButCR ==
  pc = "UploadFileV2" =>
    /\ Rows[1] = CSVHeader
    /\ Len(DataRows) = Len(Written)
    /\ \A j \in DOMAIN Written :
         /\ Len(DataRows[j]) = Len(Written[j])
         /\ \A k \in DOMAIN Written[j] : DataRows[j][k] = dropCR(Written[j][k])
    /\ (\A j \in DOMAIN pmls : ~HasCRLF(pmls[j].Title)) => DataRows = Written

\* An artifact with two rows is read back: a title with the delimiter,
\* quotes and a line feed, and one with a carriage return and a line feed.
C21_Witness ==
  /\ pc = "UploadFileV2"
  /\ Len(pmls) = 2
  /\ IsSpecial(pmls[1].Title)
  /\ HasCRLF(pmls[2].Title)
  /\ DataRows[1] = Written[1]
  /\ DataRows[2][1] = dropCR(pmls[2].Title)

\* The titles the resolvers of the scenario return.
ArtistSongA == <<"A","r","t","i","s","t"," ","-"," ","S","o","n","g","A">>

SongB == <<"S","o","n","g","B">>

\* C22: for the thread "check https://open.spotify.com/track/abc123",
\* "no links here", "https://youtu.be/xyz789" the title extractors are asked
\* for the Spotify link and then for the YouTube link, and when they return
\* "Artist - SongA" and "SongB" the artifact has two data rows: Artist - SongA
\* with the Spotify link in the second field, then SongB with the YouTube
\* link in the third, the other fields of the providers empty.
C22_SampleScenario ==
  (Summarized /\ Thread = SampleThread) =>
    /\ TitleCalls = << TitleCall(SpotifyProvider, SampleSpotifyURL),
                       TitleCall(YouTubeProvider, SampleYouTubeURL) >>
    /\ (TitleReturns[1].title = ArtistSongA /\ TitleReturns[2].title = SongB) =>
         /\ Uploaded
         /\ DataRows = << <<ArtistSongA, SampleSpotifyURL, <<>>, <<>>>>,
                          <<SongB, <<>>, SampleYouTubeURL, <<>>>> >>

\* The scenario has run up to the upload, with both titles resolved.
C22_Witness ==
  /\ pc = "UploadFileV2"
  /\ msgs = SampleThread
  /\ Len(TitleReturns) = 2
  /\ TitleReturns[1].title = ArtistSongA
  /\ TitleReturns[2].title = SongB
  /\ Len(DataRows) = 2

\* An extractor of the processor has no title extractor under its key.
Mismatched == processor.processors \ processor.titleParser # {}

\* C23: the two registries hold the same provider keys; a processor built
\* from registries where the provider of some extractor has no title
\* extractor is rejected when it is built (no such processor is ever at
\* work), and no message makes the processor crash.
C23_RegistriesValidated ==
  /\ urlProcessorKeys = titleExtractorKeys
  /\ pc # "main" => ~Mismatched
  /\ pc # "panic"

\* What the extractor of each provider finds in the text.
Results(text) == [p \in Providers |-> urlProcessors(p, text)]

\* The providers that find a link, or several, given what each finds.
MatchingIn(R) == { p \in Providers : ~ErrorsIs(R[p].err, ErrNoURLFound) }

Matching(text) == MatchingIn(Results(text))

\* The place in the order o of the first provider among M.
FirstIn(M, o) ==
  CHOOSE i \in DOMAIN o : o[i] \in M /\ \A k \in 1..(i - 1) : o[k] \notin M

\* What extraction has given, r, is what the extractor q of the first
\* provider that finds something gives: its link, or the skip for its
\* several links.
FirstDecides(r, q) ==
  IF q.err = Nil THEN r = q
  ELSE r.err # Nil /\ ErrorsIs(r.err, ErrMultipleResult)

\* What the extractor of each provider returns for the text, and what
\* extraction gives in each order.
ResultSet(text) == { <<p, urlProcessors(p, text)>> : p \in Providers }

ByOrder(text) == { <<o, extractFrom(text, o, 1)>> : o \in Orders }

\* The providers that find a link, or several, in RS, and what p returns.
MatchingOf(RS) ==
  { x[1] : x \in { y \in RS : ~ErrorsIs(y[2].err, ErrNoURLFound) } }

ResultOf(RS, p) == (CHOOSE x \in RS : x[1] = p)[2]

\* In every order the first provider that finds something decides, M being
\* those that do; with at most one of them every order gives the same.
DecidedByFirst(RS, BO, M) ==
  /\ Cardinality(M) <= 1 => Cardinality({ x[2] : x \in BO }) = 1
  /\ \A x \in BO :
       IF M = {}
       THEN ErrorsIs(x[2].err, ErrNoURLFound)
       ELSE FirstDecides(x[2], ResultOf(RS, x[1][FirstIn(M, x[1])]))

\* What extraction gives in each order.
Outcomes(text) == { extractFrom(text, o, 1) : o \in Orders }

\* C24 as stated: what is extracted from a message does not depend on the
\* order the providers are tried in: for the text of every message the loop
\* comes to, every order gives the same outcome (the same link of the same
\* provider, or the same skip).
C24_OrderIndependent ==
  Extracting => Cardinality(Outcomes(msgs[idx].Text)) = 1

\* C24, amended: the outcome does not depend on the order for the texts in
\* which at most one provider finds a link; in general the first provider of
\* the order that finds something decides: its one link is the outcome, or
\* the skip if it finds several.
C24_FirstMatchingDecides ==
  Extracting =>
    DecidedByFirst(ResultSet(msgs[idx].Text), ByOrder(msgs[idx].Text),
                   MatchingOf(ResultSet(msgs[idx].Text)))

\* From a text with a link of Spotify and two of YouTube the link of Spotify
\* was extracted: Spotify was tried before YouTube.
C24_Witness ==
  /\ pc = "TitleExtractor"
  /\ Matching(msgs[idx].Text) = {SpotifyProvider, YouTubeProvider}
  /\ urlProcessors(YouTubeProvider, msgs[idx].Text).err = ErrMultipleResult
  /\ found.provider = SpotifyProvider

\* The request of a title extractor has failed: no response, a status that
\* is not 200, or, for the page of Spotify, a body that cannot be read.
RequestHasFailed(p, resp) ==
  \/ resp.doErr
  \/ resp.status # 200
  \/ p = SpotifyProvider /\ resp.readErr

\* The response was fetched and holds no title: no og:title tag in the page
\* of Spotify; for oEmbed a body that is not JSON, or an empty title field.
HoldsNoTitle(p, resp) ==
  IF p = SpotifyProvider THEN resp.ogTitle = <<>>
  ELSE resp.decodeErr \/ resp.title = <<>>

\* What the title extractor of p returns for the response, t, is what the
\* response calls for.
AsResponseCallsFor(p, resp, t) ==
  IF RequestHasFailed(p, resp) THEN t = [title |-> <<>>, err |-> ErrRequestFailed]
  ELSE IF HoldsNoTitle(p, resp) THEN t = [title |-> <<>>, err |-> ErrNoTitleFound]
  ELSE t.err = Nil /\ (p # SpotifyProvider => t.title = resp.title)

\* C25: a title extractor returns ErrRequestFailed for a failed request and
\* for a response whose status is not 200, ErrNoTitleFound for a response
\* that was fetched and holds no title, and a title otherwise; whatever the
\* body it returns: while a title extractor is called every answer of the
\* server gets one of the three, and what the call has returned is one.
C25_TitleOutcomes ==
  /\ pc = "TitleExtractor" =>
       \A resp \in ResponsesFor(found.provider, found.url) :
         AsResponseCallsFor(found.provider, resp,
                            titleExtractors(found.provider, resp))
  /\ answer.call = "TitleExtractor" =>
       answer.err \in {Nil, ErrRequestFailed, ErrNoTitleFound}
  /\ \A i \in DOMAIN TitleReturns :
       TitleReturns[i].ok \/ TitleReturns[i].title = <<>>

\* The oEmbed server has answered a body that holds no title, and the title
\* extractor has returned ErrNoTitleFound.
C25_Witness ==
  /\ answer = [call |-> "TitleExtractor", err |-> ErrNoTitleFound]
  /\ TitleCalls[Len(TitleCalls)].provider = YoutTubeMusicProvider
  /\ ~TitleReturns[Len(TitleReturns)].ok

\* The separator of the description of a Spotify page, and the places of
\* the text d where it stands.
Separator == <<" ", MiddleDot, " ">>

SeparatorsIn(d) == { k \in DOMAIN d : HasPrefixAt(d, k, Separator) }

\* The text of d before its first separator.
BeforeFirst(d, ks) == SubSeq(d, 1, (CHOOSE k \in ks : \A j \in ks : k <= j) - 1)

\* The result for the title t and the description d of a page, as the claim
\* has it, ks being the places of the separator in d.
ArtistAndTitle(t, d, ks, hasDescription) ==
  IF ~hasDescription THEN t
  ELSE IF ks = {} THEN d \o <<" ","-"," ">> \o t
  ELSE BeforeFirst(d, ks) \o <<" ","-"," ">> \o t

\* The pages of Spotify that hold a title.
TitledPages(rs) ==
  { r \in rs : ~RequestHasFailed(SpotifyProvider, r)
               /\ ~HoldsNoTitle(SpotifyProvider, r) }

\* C26: SpotifyTitleExtractor returns "<artist> - <title>": if the
\* description holds the separator " · " the artist is the text before the
\* first one; if there is a description without the separator the whole
\* description is the prefix, and no error is returned; without a
\* description the title alone is returned.  (Title and description are
\* taken without the white space around them.)
C26_ArtistPrefix ==
  (pc = "TitleExtractor" /\ found.provider = SpotifyProvider) =>
    \A resp \in TitledPages(ResponsesFor(found.provider, found.url)) :
      titleExtractors(found.provider, resp) =
        [title |-> ArtistAndTitle(TrimSpace(resp.ogTitle), TrimSpace(resp.ogDesc),
                                  SeparatorsIn(TrimSpace(resp.ogDesc)),
                                  resp.ogDesc # <<>>),
         err |-> Nil]

\* A page whose description has no separator was answered, and the title
\* extractor has returned the description as the prefix of the title.
C26_Witness ==
  /\ answer = [call |-> "TitleExtractor", err |-> Nil]
  /\ TitleCalls[Len(TitleCalls)].provider = SpotifyProvider
  /\ TitleReturns[Len(TitleReturns)].title =
       <<"A"," ","s","o","n","g"," ","-"," ","S","o","n","g","A">>

\* The parameters of the upload of the event at hand.
UploadParams == trace[CHOOSE i \in Entries("UploadFileV2") : TRUE].params

\* The comment that states n links.
CommentOf(n) ==
  <<"F","o","u","n","d"," ">> \o Itoa(n) \o
  <<" ","m","u","s","i","c"," ","U","R","L","s"," ","i","n"," ","t","h","i","s",
    " ","t","h","r","e","a","d">>

\* C27: the upload made for a summarize command goes to the channel and the
\* thread timestamp of the mention that caused it, its file name is
\* "<channelID>-<threadTS>.csv", and its comment states as many links as the
\* uploaded artifact has data rows.
C27_UploadTarget ==
  pc = "UploadFileV2" =>
    /\ Cardinality(Entries("UploadFileV2")) = 1
    /\ UploadParams.Channel = evt.Data.Inner.Channel
    /\ UploadParams.ThreadTimestamp = evt.Data.Inner.ThreadTimeStamp
    /\ UploadParams.Filename =
         evt.Data.Inner.Channel \o <<"-">> \o evt.Data.Inner.ThreadTimeStamp
           \o <<".","c","s","v">>
    /\ UploadParams.InitialComment = CommentOf(Len(DataRows))

\* A mention in the second channel has led to the upload of an artifact of
\* two data rows.
C27_Witness ==
  /\ pc = "UploadFileV2"
  /\ evt.Data.Inner.Channel = <<"C","2">>
  /\ UploadParams.Filename =
       <<"C","2","-","1","7","0","0",".","0","1",".","c","s","v">>
  /\ Len(DataRows) = 2
  /\ UploadParams.InitialComment = CommentOf(2)

\* The call of the title extractor that follows the outcome r of extraction,
\* if one does.
CallAfter(r) == IF r.err = Nil THEN <<TitleCall(r.provider, r.url)>> ELSE <<>>

\* What the extractors that find a link in the text, or several, return.
FoundIn(text) ==
  { r \in { urlProcessors(p, text) : p \in Providers } :
      ~ErrorsIs(r.err, ErrNoURLFound) }

\* The calls that may follow, F being what the extractors have found: the
\* extractor that is tried first among them decides.
CallsAfter(F) == IF F = {} THEN {<<>>} ELSE { CallAfter(r) : r \in F }

\* The calls of the title extractor a message of the text may lead to, one
\* for each order the providers are tried in.
NextCalls(text) == CallsAfter(FoundIn(text))

\* The sequences of calls of the title extractor the first n messages of the
\* thread may lead to.
RECURSIVE CallsOf(_, _)
CallsOf(thread, n) ==
  IF n = 0 THEN {<<>>}
  ELSE { a \o b : a \in CallsOf(thread, n - 1), b \in NextCalls(thread[n].Text) }

\* The messages SummarizeThread has come to.
Processed == IF pc = "TitleExtractor" THEN idx ELSE idx - 1

\* The records of the calls whose titles were returned, in their order.
RECURSIVE RowsOf(_, _, _)
RowsOf(calls, returns, k) ==
  IF k > Len(returns) THEN <<>>
  ELSE (IF returns[k].ok
        THEN <<csvRecord([Title |-> returns[k].title, URL |-> calls[k].url,
                          Type |-> calls[k].provider])>>
        ELSE <<>>) \o RowsOf(calls, returns, k + 1)

\* Nothing is left of the events handled before the one just taken.
Fresh ==
  /\ trace = <<>>
  /\ msgs = <<>> /\ idx = 0 /\ pmls = <<>>
  /\ found = NoFound
  /\ inflight = NoCall
  /\ answer = NoAnswer

\* C28 as stated: the calls made for an event are determined by the event
\* and the answers alone: whenever the loop comes to a message, the event
\* and the answers given so far leave one possibility for what is called
\* next.
C28_DeterminedByEventAndAnswers ==
  Extracting => Cardinality(NextCalls(msgs[idx].Text)) = 1

\* C28: the dispatcher carries no state from one event to the next.  The
\* handling of every event, the first or a later one, starts from nothing,
\* and every call made for it has the arguments the event and the answers
\* given for it determine: the acknowledgment its request, the notices and
\* the fetch its channel, user and thread, the title extractor the links of
\* the fetched messages, one message after the other, and the upload the
\* channel and thread of the event and the records of the titles returned.
\* (Which link of a message that holds links of several providers is looked
\* up depends on the order the providers are tried in as well.)
C28_NoStateBetweenEvents ==
  /\ pc = "handleEventsAPI" => Fresh
  /\ \A i \in Entries("Ack") : trace[i].Request = evt.Request
  /\ \A i \in Entries("PostEphemeral") :
       /\ trace[i].Channel = evt.Data.Inner.Channel
       /\ trace[i].User = evt.Data.Inner.User
  /\ \A i \in Entries("GetConversationReplies") :
       /\ trace[i].ChannelID = evt.Data.Inner.Channel
       /\ trace[i].Timestamp = evt.Data.Inner.ThreadTimeStamp
  /\ pc \in {"SummarizeThread", "TitleExtractor", "UploadFileV2"} =>
       /\ Thread = msgs
       /\ Len(TitleCalls) <= Processed
  /\ pc = "TitleExtractor" =>
       <<TitleCalls[Len(TitleCalls)]>> \in NextCalls(msgs[idx].Text)
  /\ pc = "UploadFileV2" =>
       /\ TitleCalls \in CallsOf(msgs, Len(msgs))
       /\ UploadParams.Channel = evt.Data.Inner.Channel
       /\ UploadParams.ThreadTimestamp = evt.Data.Inner.ThreadTimeStamp
       /\ Len(TitleReturns) = Len(TitleCalls)
       /\ Rows = <<CSVHeader>> \o RowsOf(TitleCalls, TitleReturns, 1)

\* The second event of a run is a mention whose thread holds a message with
\* a link of Spotify and one of YouTube; the title of the YouTube link was
\* looked up and is uploaded.
C28_Witness ==
  /\ Len(handled) = 2
  /\ pc = "UploadFileV2"
  /\ Len(msgs) = 1
  /\ Cardinality(NextCalls(msgs[1].Text)) = 2
  /\ TitleCalls = <<TitleCall(YouTubeProvider, SampleYouTubeURL)>>
  /\ Len(DataRows) = 1

(***************************************************************************)
(* The summarizer with a writer that fails.  csv.Writer.Write hands on the *)
(* error of the writer below it; createCSV has a branch for it.            *)
(***************************************************************************)
\* io.ErrShortWrite, an error of a write.
WriteError == <<"short write">>

\* createCSV when the Write of a record has returned lErr, err being the
\* error of the Write of the header: fmt.Errorf("appending csv line: %w", err).
rowWriteFailed(err, lErr) ==
  [csv |-> <<>>, size |-> 0, err |-> Wrap("appending csv line", err)]

\* SummarizeThread after its loop, when createCSV has written the header and
\* the Write of a record fails; processThread up to its return.
summarizedWriteFails ==
  /\ pc = "SummarizeThread"
  /\ idx > Len(msgs)
  /\ pmls # <<>>
  /\ upload(uploadParametersOf(rowWriteFailed(Nil, WriteError), Len(pmls),
                               fileNameOf(evt.Data.Inner.Channel,
                                          evt.Data.Inner.ThreadTimeStamp),
                               evt.Data.Inner.Channel,
                               evt.Data.Inner.ThreadTimeStamp))
  /\ UNCHANGED <<processor, Events, closed, cancelled, arrived, evt, handled, answer>>

WriteFailNext ==
  \/ SummarizeNext
  \/ summarizedWriteFails

WriteFailSpec == SummarizeInit /\ [][WriteFailNext]_vars

\* The errors that start outside the handlers: those of the Slack client, of
\* the command and of a write.
Causes ==
  {SlackAPIError[1], ContextCanceledError[1], ErrInvalidCommandType[1],
   WriteError[1]}

\* C29: every error that the processing of a thread propagates is annotated
\* with the name of the operation that failed and still carries its cause:
\* the error handleMentions returns is a chain of annotations that ends with
\* the error that started it, a failed write of a record of the artifact
\* included.
C29_CauseKept ==
  \A i \in Entries("return") :
    trace[i].err # Nil =>
      /\ Len(trace[i].err) >= 2
      /\ trace[i].err[Len(trace[i].err)] \in Causes

\* The text of the message the loop of SummarizeThread is at.
TextAtHand == msgs[idx].Text

\* What the extractor of provider p has returned, r, is as C30 has it.
OwnTagAndURL(p, r) ==
  /\ r.provider = p
  /\ r.err \in {Nil, ErrNoURLFound, ErrMultipleResult}
  /\ r.err # Nil => r.url = <<>>
  /\ r.err = Nil => r.url # <<>>

\* C30: the URL extractor of each provider returns the tag of its own
\* provider in every outcome, and the empty string as the URL whenever it
\* returns an error, which is that no link was found or that several were;
\* without an error the URL is not empty.
C30_OwnTagAndEmptyURL ==
  (Extracting \/ pc = "TitleExtractor") =>
    \A x \in { <<p, urlProcessors(p, TextAtHand)>> : p \in Providers } :
      OwnTagAndURL(x[1], x[2])

\* The loop has extracted from a message in which the extractor of Spotify
\* finds one link, that of YouTube several and that of YouTube Music none.
C30_Witness ==
  /\ pc = "TitleExtractor"
  /\ found.provider = SpotifyProvider
  /\ Results(TextAtHand)[SpotifyProvider].url = found.url
  /\ Results(TextAtHand)[YouTubeProvider] =
       [url |-> <<>>, provider |-> YouTubeProvider, err |-> ErrMultipleResult]
  /\ Results(TextAtHand)[YoutTubeMusicProvider] =
       [url |-> <<>>, provider |-> YoutTubeMusicProvider, err |-> ErrNoURLFound]

(***************************************************************************)
(* The start of main: the configuration read from the environment.  There  *)
(* are two mains, one that calls the functions of internal/config and one  *)
(* that has functions of its own.                                          *)
(***************************************************************************)
\* strings.ToLower, on the letters of ASCII.
ToLowerChar(c) ==
  CASE c = "A" -> "a" [] c = "B" -> "b" [] c = "C" -> "c" [] c = "D" -> "d"
    [] c = "E" -> "e" [] c = "F" -> "f" [] c = "G" -> "g" [] c = "H" -> "h"
    [] c = "I" -> "i" [] c = "J" -> "j" [] c = "K" -> "k" [] c = "L" -> "l"
    [] c = "M" -> "m" [] c = "N" -> "n" [] c = "O" -> "o" [] c = "P" -> "p"
    [] c = "Q" -> "q" [] c = "R" -> "r" [] c = "S" -> "s" [] c = "T" -> "t"
    [] c = "U" -> "u" [] c = "V" -> "v" [] c = "W" -> "w" [] c = "X" -> "x"
    [] c = "Y" -> "y" [] c = "Z" -> "z" [] OTHER -> c

ToLower(s) == [i \in DOMAIN s |-> ToLowerChar(s[i])]

\* strings.HasPrefix
HasPrefix(s, prefix) == HasPrefixAt(s, 1, prefix)

debugEnabledOptions == << <<"1">>, <<"t","r","u","e">>, <<"e","n","a","b","l","e">> >>

\* slices.Contains
SlicesContains(list, v) == \E i \in DOMAIN list : list[i] = v

\* An InDebugMode that compares the value as it is.
InDebugModeAsIs(debug) == SlicesContains(debugEnabledOptions, debug)

\* config.InDebugMode, given the value of DEBUG
InDebugMode(debug) == SlicesContains(debugEnabledOptions, ToLower(debug))

\* inDebugMode of cmd/bot/main.go, given the value of DEBUG
inDebugMode(debug) ==
  IF SlicesContains(debugEnabledOptions, ToLower(debug)) THEN TRUE ELSE FALSE

ErrMissingVariable == <<"required variable is missing">>

ErrMissingPrefix == <<"mandatory prefix is missing">>

BotPrefix == <<"x","o","x","b","-">>

AppPrefix == <<"x","a","p","p","-">>

\* return "", "", err
NoConfig(err) == [botToken |-> <<>>, appToken |-> <<>>, err |-> err]

\* config.GetConfig, given the values of SLACK_BOT_TOKEN and SLACK_APP_TOKEN
GetConfig(botToken, appToken) ==
  IF botToken = <<>>
  THEN NoConfig(Wrap("SLACK_BOT_TOKEN", ErrMissingVariable))
  ELSE IF appToken = <<>>
  THEN NoConfig(Wrap("SLACK_APP_TOKEN", ErrMissingVariable))
  ELSE IF ~HasPrefix(botToken, BotPrefix)
  THEN NoConfig(Wrap("SLACK_BOT_TOKEN, prefix: xoxb-", ErrMissingPrefix))
  ELSE IF ~HasPrefix(appToken, AppPrefix)
  THEN NoConfig(Wrap("SLACK_APP_TOKEN, prefix: xapp-", ErrMissingPrefix))
  ELSE [botToken |-> botToken, appToken |-> appToken, err |-> Nil]

\* The errors of getConfig of cmd/bot/main.go.
ErrBotTokenRequired == <<"SLACK_BOT_TOKEN variable is required">>

ErrAppTokenRequired == <<"SLACK_APP_TOKEN variable is required">>

ErrBotTokenPrefix == <<"SLACK_BOT_TOKEN variable must have a prefix \"xoxb-\"">>

ErrAppTokenPrefix == <<"SLACK_APP_TOKEN variable must have a prefix \"xapp-\"">>

\* getConfig of cmd/bot/main.go
getConfig(botToken, appToken) ==
  IF botToken = <<>> THEN NoConfig(ErrBotTokenRequired)
  ELSE IF ~HasPrefix(botToken, BotPrefix) THEN NoConfig(ErrBotTokenPrefix)
  ELSE IF ~HasPrefix(appToken, AppPrefix) THEN NoConfig(ErrAppTokenPrefix)
  ELSE IF appToken = <<>> THEN NoConfig(ErrAppTokenRequired)
  ELSE [botToken |-> botToken, appToken |-> appToken, err |-> Nil]

\* The values the environment may give to DEBUG and to the tokens.
DebugValues ==
  { <<>>, <<"1">>, <<"0">>, <<"1","1">>, <<"t","r","u","e">>, <<"T","R","U","E">>,
    <<"T","r","u","e">>, <<"e","n","a","b","l","e">>, <<"E","n","a","b","l","e">>,
    <<"e","n","a","b","l","e","d">>, <<"f","a","l","s","e">>, <<"y","e","s">>,
    <<" ","t","r","u","e">> }

TokenValues ==
  { <<>>, BotPrefix, AppPrefix, BotPrefix \o <<"1">>, AppPrefix \o <<"1">>,
    <<"x","o","x","b">>, <<"X","o","x","b","-","1">>, <<"1">> \o AppPrefix }

\* isDebug := config.InDebugMode(), and the same of the main that has its own.
InDebugModeCall ==
  /\ pc = "main"
  /\ \E debug \in DebugValues :
       trace' = <<[kind |-> "InDebugMode", DEBUG |-> debug,
                   isDebug |-> InDebugMode(debug)]>>
  /\ pc' = "GetConfig"
  /\ UNCHANGED <<processor, Events, closed, cancelled, arrived, evt, handled, inflight, msgs, idx, pmls, found, answer>>

inDebugModeCall ==
  /\ pc = "main"
  /\ \E debug \in DebugValues :
       trace' = <<[kind |-> "InDebugMode", DEBUG |-> debug,
                   isDebug |-> inDebugMode(debug)]>>
  /\ pc' = "getConfig"
  /\ UNCHANGED <<processor, Events, closed, cancelled, arrived, evt, handled, inflight, msgs, idx, pmls, found, answer>>

\* main after the configuration was read: it exits on an error.
configured(c) == pc' = IF c.err # Nil THEN "exit" ELSE "NewSlackMessageProcessor"

\* botToken, appToken, err := config.GetConfig()
GetConfigCall ==
  /\ pc = "GetConfig"
  /\ \E b \in TokenValues, a \in TokenValues :
       /\ trace' = Append(trace, [kind |-> "GetConfig", SLACK_BOT_TOKEN |-> b,
                                  SLACK_APP_TOKEN |-> a, config |-> GetConfig(b, a)])
       /\ configured(GetConfig(b, a))
  /\ UNCHANGED <<processor, Events, closed, cancelled, arrived, evt, handled, inflight, msgs, idx, pmls, found, answer>>

\* botToken, appToken, err := getConfig()
getConfigCall ==
  /\ pc = "getConfig"
  /\ \E b \in TokenValues, a \in TokenValues :
       /\ trace' = Append(trace, [kind |-> "GetConfig", SLACK_BOT_TOKEN |-> b,
                                  SLACK_APP_TOKEN |-> a, config |-> getConfig(b, a)])
       /\ configured(getConfig(b, a))
  /\ UNCHANGED <<processor, Events, closed, cancelled, arrived, evt, handled, inflight, msgs, idx, pmls, found, answer>>

ConfigNext ==
  \/ InDebugModeCall
  \/ inDebugModeCall
  \/ GetConfigCall
  \/ getConfigCall

ConfigSpec == BuildInit /\ [][ConfigNext]_vars

\* The error says that a variable is missing, or that a prefix is.
IsMissingVariable(err) ==
  \/ ErrorsIs(err, ErrMissingVariable)
  \/ err \in {ErrBotTokenRequired, ErrAppTokenRequired}

IsMissingPrefix(err) ==
  \/ ErrorsIs(err, ErrMissingPrefix)
  \/ err \in {ErrBotTokenPrefix, ErrAppTokenPrefix}

\* The text s starts with the text t.
StartsWith(s, t) == Len(s) >= Len(t) /\ \A i \in DOMAIN t : s[i] = t[i]

\* What was returned, c, for the tokens b and a is as C31 has it.
ConfigAsStated(b, a, c) ==
  IF b = <<>> \/ a = <<>>
  THEN c.botToken = <<>> /\ c.appToken = <<>> /\ IsMissingVariable(c.err)
  ELSE IF StartsWith(b, <<"x","o","x","b","-">>)
          /\ StartsWith(a, <<"x","a","p","p","-">>)
  THEN c = [botToken |-> b, appToken |-> a, err |-> Nil]
  ELSE c.botToken = <<>> /\ c.appToken = <<>> /\ IsMissingPrefix(c.err)

\* C31: the configuration is returned with both tokens and no error exactly
\* when the bot token starts with "xoxb-" and the app token with "xapp-";
\* otherwise two empty strings and an error are returned: the error of the
\* missing variable when a token is empty, whatever the prefixes are, and the
\* error of the missing prefix when a token that is not empty lacks its
\* prefix.
C31_ConfigAsStated ==
  \A i \in Entries("GetConfig") :
    ConfigAsStated(trace[i].SLACK_BOT_TOKEN, trace[i].SLACK_APP_TOKEN,
                   trace[i].config)

\* The values that are said to enable the debug mode.
EnablingValues == { <<"1">>, <<"t","r","u","e">>, <<"e","n","a","b","l","e">> }

\* The text s is the text t but for the case of its letters, t being in lower
\* case.
SameButCase(s, t) ==
  /\ Len(s) = Len(t)
  /\ \A i \in DOMAIN s :
       \/ s[i] = t[i]
       \/ s[i] \in Upper /\ t[i] \in Lower /\ ToLowerChar(s[i]) = t[i]

OneMixedMessage ==
  /\ Len(msgs) = 1
  /\ Cardinality(FoundIn(msgs[1].Text)) = 2
  /\ \A r \in FoundIn(msgs[1].Text) : r.err = Nil

\* C33 as stated: each message contributes at most one data row: the
\* artifact has at most as many data rows as the thread has messages, and a
\* message that holds one link of each of two providers yields exactly one
\* row.
C33_OneRowOfMixedMessage ==
  pc = "UploadFileV2" =>
    /\ Len(DataRows) <= Len(msgs)
    /\ OneMixedMessage => Len(DataRows) = 1

\* C33, amended: the artifact has at most as many data rows as the thread
\* has messages, no more titles are looked up than there are messages, and
\* for a message that holds one link of each of two providers one title is
\* looked up, that of the link of the provider tried first: the message
\* yields one row, with that link in the column of its provider, if the
\* title is resolved, and no row if it is not; the link of the other
\* provider is not looked up.
C33_AtMostOneRowPerMessage ==
  pc = "UploadFileV2" =>
    /\ Len(DataRows) <= Len(msgs)
    /\ Len(TitleCalls) <= Len(msgs)
    /\ OneMixedMessage =>
         /\ Len(TitleCalls) = 1
         /\ <<TitleCalls[1]>> \in NextCalls(msgs[1].Text)
         /\ Len(DataRows) = IF TitleReturns[1].ok THEN 1 ELSE 0
         /\ \A j \in DOMAIN DataRows :
              /\ DataRows[j][ColumnOf(TitleCalls[1].provider)] = TitleCalls[1].url
              /\ \A p \in Providers \ {TitleCalls[1].provider} :
                   DataRows[j][ColumnOf(p)] = <<>>

\* A message with a link of Spotify and one of YouTube has given the one row
\* of the link of YouTube: YouTube was tried first.
C33_Witness ==
  /\ pc = "UploadFileV2"
  /\ OneMixedMessage
  /\ TitleCalls[1].provider = YouTubeProvider
  /\ { r.provider : r \in FoundIn(msgs[1].Text) } = {SpotifyProvider, YouTubeProvider}
  /\ Len(DataRows) = 1
  /\ DataRows[1][ColumnOf(SpotifyProvider)] = <<>>

-----------------------------------------------------------------------------
\* The fetch of the thread (bot.go, processThread).

\* The fetches of the most recent event.
Fetches == Entries("GetConversationReplies")

\* C34: a summarize command issues one fetch of the thread's replies and no
\* more, with the mention's channel id, the mention's thread timestamp and a
\* limit of 1000; whatever the answer says about further replies, no second
\* fetch follows, and the messages handed to the summary are those of the
\* one answer.
C34_OneFetchOfOnePage ==
  /\ Cardinality(Fetches) <= 1
  /\ \A i \in Fetches :
       /\ trace[i].ChannelID = evt.Data.Inner.Channel
       /\ trace[i].Timestamp = evt.Data.Inner.ThreadTimeStamp
       /\ trace[i].Limit = 1000
  /\ \A i \in Entries("SummarizeThread") :
       /\ Cardinality(Fetches) = 1
       /\ \A j \in Fetches : j = i - 2
       /\ trace[i - 1].kind = "GetConversationRepliesReturn"
       /\ trace[i].msgs = trace[i - 1].msgs
       /\ pc = "SummarizeThread" => msgs = trace[i - 1].msgs

\* The answer to the fetch of a summarize command has said that the thread
\* holds more replies, and the thread is being summarized.
C34_Witness ==
  /\ pc = "SummarizeThread"
  /\ Len(msgs) = MaxMsgs
  /\ \E i \in Entries("GetConversationRepliesReturn") : trace[i].hasMore
  /\ isSummarize(evt.Data.Inner.Text)

-----------------------------------------------------------------------------
\* The size of the artifact (createCSV of both processors).

\* The parsed links given to createCSV: of every provider, with a title
\* that is plain, empty, has the delimiter or has a character of two bytes.
CSVTitles ==
  { <<"S","o","n","g","A">>, <<>>, <<"a",";","b">>, <<"A",MiddleDot,"B">> }

CSVLinks ==
  [Type : Providers, Title : CSVTitles, URL : {SampleSpotifyURL, SampleYouTubeURL}]

CSVLists ==
  {<<>>} \cup { <<l>> : l \in CSVLinks }
         \cup { <<k, l>> : k \in CSVLinks, l \in CSVLinks }

CSVChannel == <<"C","1">>

CSVThread == <<"1","7","0","0",".","0","1">>

CSVInit ==
  /\ Events = <<>>
  /\ closed = FALSE
  /\ cancelled = FALSE
  /\ arrived = 0
  /\ pc = "createCSV"
  /\ evt = NoEvent
  /\ handled = <<>>
  /\ trace = <<>>
  /\ inflight = NoCall
  /\ msgs = <<>>
  /\ idx = 0
  /\ pmls \in CSVLists
  /\ found = NoFound
  /\ answer = NoAnswer
  /\ processor = NewSlackMessageProcessor({}, {})

\* csv, size, err := s.createCSV(pmls) of messageProcessorDomain, and the
\* parameters of the upload made of them.
createCSVCall ==
  /\ pc = "createCSV"
  /\ trace' =
       <<[kind |-> "UploadFileV2",
          params |-> uploadParametersOf(createCSV(pmls), Len(pmls),
                       fileNameOf(CSVChannel, CSVThread),
                       CSVChannel, CSVThread).params]>>
  /\ pc' = "UploadFileV2"
  /\ UNCHANGED <<processor, Events, closed, cancelled, arrived, evt, handled, inflight, msgs, idx, pmls, found, answer>>

\* createCSV of slackMessageProcessor, the processor that holds the client.
createCSVCap(links) == csvResultCap(csvJoin(CSVHeader) \o csvLines(links))

\* csv, size, err := s.createCSV(pmls) of slackMessageProcessor, and the
\* parameters of its upload.
createCSVCapCall ==
  /\ pc = "createCSV"
  /\ trace' =
       <<[kind |-> "UploadFileV2",
          params |->
            [Reader |-> createCSVCap(pmls).csv,
             Filename |-> fileNameOf(CSVChannel, CSVThread),
             Title |-> <<"M","u","s","i","c"," ","U","R","L","s"," ",
                         "f","r","o","m"," ","T","h","r","e","a","d">>,
             InitialComment |->
               uploadParametersOf(createCSV(pmls), Len(pmls),
                 fileNameOf(CSVChannel, CSVThread),
                 CSVChannel, CSVThread).params.InitialComment,
             Channel |-> CSVChannel, ThreadTimestamp |-> CSVThread,
             FileSize |-> createCSVCap(pmls).size]]>>
  /\ pc' = "UploadFileV2"
  /\ UNCHANGED <<processor, Events, closed, cancelled, arrived, evt, handled, inflight, msgs, idx, pmls, found, answer>>

CSVNext ==
  \/ createCSVCall
  \/ createCSVCapCall

CSVSpec == CSVInit /\ [][CSVNext]_vars

\* C35: the FileSize of every artifact is the number of bytes of the content
\* handed to the upload with it, whatever the list of parsed links, the
\* empty list included.
C35_FileSizeIsByteLength ==
  \A i \in Entries("UploadFileV2") :
    trace[i].params.FileSize = ByteLen(trace[i].params.Reader)

-----------------------------------------------------------------------------
\* The order of the events (bot.go, HandleEvents).

\* The events that have arrived on the stream, in the order of their arrival.
Arrivals == [i \in 1..arrived |-> i]

\* C36: the events HandleEvents has taken, followed by those that wait on the
\* stream, are the events that arrived, in the order of their arrival: none
\* is skipped, taken twice or taken before one that arrived earlier; and the
\* event being dispatched is the one taken last.
C36_InOrderOfArrival ==
  /\ handled \o Events = Arrivals
  /\ evt # NoEvent => /\ handled # <<>>
                      /\ evt.id = handled[Len(handled)]

\* Two events have arrived and both were dispatched, the second one last.
C36_Witness ==
  /\ handled = <<1, 2>>
  /\ Events = <<>>
  /\ evt.id = 2
  /\ pc = "select"

-----------------------------------------------------------------------------
\* The shutdown while events wait (bot.go, HandleEvents; main.go, main).

\* C37: once ctx is done, HandleEvents takes no further event from the
\* stream, whether or not events wait on it.
C37_NoEventAfterCancel == [][cancelled => handled' = handled]_vars

-----------------------------------------------------------------------------
\* The closed stream (bot.go, HandleEvents).

\* What HandleEvents logs when it finds the stream closed.
ClosedLog == LogLine("INFO", "events channel closed", Nil)

\* HandleEvents has returned because it found the stream closed.
ReturnedOnClose == pc = "returned" /\ trace = <<ClosedLog>>

\* C38: when the stream is closed, HandleEvents returns once it waits for an
\* event and none is left; it returns for the close only when every event
\* that arrived before the close was handled; and for the close it makes no
\* outbound call: it writes one log line and returns.  A return that is not
\* for the close is for the cancellation.
C38_ReturnsWhenClosed ==
  /\ [](pc = "returned" => cancelled \/ ReturnedOnClose)
  /\ []((\E i \in DOMAIN trace : trace[i] = ClosedLog) =>
          /\ ReturnedOnClose
          /\ closed
          /\ Events = <<>>
          /\ handled = Arrivals
          /\ inflight = NoCall)
  /\ (closed /\ Blocked /\ ~cancelled) ~> ReturnedOnClose \/ cancelled

\* The stream was closed with two events on it, both were handled, and
\* HandleEvents has returned for the close, with no cancellation.
C38_Witness ==
  /\ ReturnedOnClose
  /\ ~cancelled
  /\ handled = <<1, 2>>
====
